---- MODULE Spec2Model ----
(***************************************************************************)
(* A model of the TLS 1.3 client core of Botan:                            *)
(*   - Client_Impl_13   (src/lib/tls/tls13/tls_client_impl_13.cpp)         *)
(*   - Record_Layer     (src/lib/tls/tls13/tls_record_layer_13.cpp)        *)
(* The collaborators whose code is not part of these two files (transition *)
(* table, handshake state, transcript hash, cipher state, channel) are     *)
(* modelled after their description in the specification.                  *)
(***************************************************************************)
EXTENDS Integers, Sequences, FiniteSets, TLC

VARIABLES
    \* ---- Client_Impl_13 / Channel_Impl_13 ----
    policy,              \* Policy: tls_13_middlebox_compatibility_mode, allow_tls12
    m_transitions,       \* Handshake_Transitions: the expected-next set
    m_handshake_state,   \* Handshake_State_13: one slot per handshake message
    m_transcript_hash,   \* Transcript_Hash_State: the messages hashed, in order
    m_cipher_state,      \* Cipher_State: epoch and key generations
    log,                 \* everything the client did that the outside can see
    alert,               \* "none", or the failure that ended the connection
    c_call,              \* the last call made on the client and its argument
    accepted,            \* the handshake messages whose handler returned normally
    key_updates,         \* number of KeyUpdate messages processed
    \* ---- Record_Layer: one object per Connection_Side (its m_side) ----
    m_initial_record,    \* [side -> Record_Layer::m_initial_record]
    m_read_buffer,       \* [side -> Record_Layer::m_read_buffer]
    cs_write_seq,        \* [side -> Cipher_State: number of records protected]
    cs_read_seq,         \* [side -> Cipher_State: number of records unprotected]
    emitted,             \* [side -> the records prepare_records has returned]
    wire,                \* [side -> bytes sent to this side and not yet fed to it]
    round_trip,          \* the last output put on the wire and what the peer made of it
    call,                \* the last record-layer call, its arguments, the state before
    result               \* what that call returned or threw

client_vars == <<policy, m_transitions, m_handshake_state, m_transcript_hash,
                 m_cipher_state, log, alert, c_call, accepted, key_updates>>
rl_vars == <<m_initial_record, m_read_buffer, cs_write_seq, cs_read_seq,
             emitted, wire, round_trip, call, result>>
vars == <<policy, m_transitions, m_handshake_state, m_transcript_hash,
          m_cipher_state, log, alert, c_call, accepted, key_updates,
          m_initial_record, m_read_buffer, cs_write_seq, cs_read_seq,
          emitted, wire, round_trip, call, result>>

(***************************************************************************)
(* Bounds of the model.                                                    *)
(***************************************************************************)
MaxKeyUpdates == 3
MaxEmitted == 2
MaxBuffered == 6
MaxReadSeq == 2
MaxRoundTrips == 2
\* The longest piece of a stream fed at once, unless more was asked for.
MaxChunk == 8

(***************************************************************************)
(*                         PART I: Client_Impl_13                          *)
(***************************************************************************)

\* Handshake_Type tags used by the transition table.
SERVER_HELLO == "SERVER_HELLO"
HELLO_RETRY_REQUEST == "HELLO_RETRY_REQUEST"
ENCRYPTED_EXTENSIONS == "ENCRYPTED_EXTENSIONS"
CERTIFICATE == "CERTIFICATE"
CERTIFICATE_REQUEST == "CERTIFICATE_REQUEST"
CERTIFICATE_VERIFY == "CERTIFICATE_VERIFY"
FINISHED == "FINISHED"

\* Protocol versions, extension types, cipher suites and session ids are
\* compared for equality and membership only; they are modelled as names.
\* The ClientHello offers two cipher suites ("TLS_AES_128_CCM_SHA256" is one it
\* does not offer) and carries the session id "sid_client".

NoMsg == [kind |-> "none", session_id |-> "", ciphersuite |-> "",
          selected_version |-> "", extension_types |-> {},
          downgrade |-> "none", valid |-> TRUE, ext_valid |-> TRUE,
          cert_chain |-> 0, request_update |-> FALSE]

\* Client_Hello_13 as built by the constructor from the policy.
Client_Hello_13(pol) ==
    [session_id |-> "sid_client",
     ciphersuites |-> {"TLS_AES_128_GCM_SHA256", "TLS_AES_256_GCM_SHA384"},
     supported_versions |-> IF pol.allow_tls12 THEN {"TLS_V13", "TLS_V12"}
                                               ELSE {"TLS_V13"},
     extension_types |-> {"supported_versions", "key_share", "server_name"},
     retried |-> FALSE]

\* msg.type(): both views of a ServerHello are SERVER_HELLO.
type(msg) ==
    CASE msg.kind = "Server_Hello_13" -> SERVER_HELLO
      [] msg.kind = "Server_Hello_12" -> SERVER_HELLO
      [] msg.kind = "Hello_Retry_Request" -> HELLO_RETRY_REQUEST
      [] msg.kind = "Encrypted_Extensions" -> ENCRYPTED_EXTENSIONS
      [] msg.kind = "Certificate_13" -> CERTIFICATE
      [] msg.kind = "Certificate_Verify_13" -> CERTIFICATE_VERIFY
      [] msg.kind = "Finished_13" -> FINISHED

\* The handshake messages a server may send. Every field a handler looks at
\* is a field of the message; the fields a message kind does not have keep
\* the values of NoMsg.
Hello(kind, sid, suite, version, exts, downgrade) ==
    [NoMsg EXCEPT !.kind = kind, !.session_id = sid, !.ciphersuite = suite,
                  !.selected_version = version, !.extension_types = exts,
                  !.downgrade = downgrade]

GoodServerHello ==
    Hello("Server_Hello_13", "sid_client", "TLS_AES_128_GCM_SHA256", "TLS_V13",
          {"supported_versions", "key_share"}, "none")
GoodHelloRetryRequest ==
    Hello("Hello_Retry_Request", "sid_client", "TLS_AES_128_GCM_SHA256", "TLS_V13",
          {"supported_versions", "key_share"}, "none")
GoodServerHello12 ==
    Hello("Server_Hello_12", "sid_client", "TLS_AES_128_GCM_SHA256", "TLS_V12",
          {}, "none")

ServerHellos13 ==
    { GoodServerHello,
      [GoodServerHello EXCEPT !.session_id = "sid_other"],
      [GoodServerHello EXCEPT !.ciphersuite = "TLS_AES_256_GCM_SHA384"],
      [GoodServerHello EXCEPT !.ciphersuite = "TLS_AES_128_CCM_SHA256"],
      [GoodServerHello EXCEPT !.selected_version = "TLS_V14"],
      [GoodServerHello EXCEPT !.extension_types = {"supported_versions", "key_share", "early_data"}],
      [GoodServerHello EXCEPT !.extension_types = {"supported_versions", "key_share", "cookie"}],
      [GoodServerHello EXCEPT !.extension_types = {"supported_versions"}],
      [GoodServerHello EXCEPT !.downgrade = "TLS_V12"],
      [GoodServerHello EXCEPT !.downgrade = "TLS_V11"],
      [GoodServerHello EXCEPT !.selected_version = "TLS_V12"],
      [GoodServerHello EXCEPT !.session_id = "sid_other",
                              !.extension_types = {"supported_versions", "key_share", "early_data"}] }

HelloRetryRequests ==
    { GoodHelloRetryRequest,
      [GoodHelloRetryRequest EXCEPT !.session_id = "sid_other"],
      [GoodHelloRetryRequest EXCEPT !.ciphersuite = "TLS_AES_256_GCM_SHA384"],
      [GoodHelloRetryRequest EXCEPT !.ciphersuite = "TLS_AES_128_CCM_SHA256"],
      [GoodHelloRetryRequest EXCEPT !.selected_version = "TLS_V14"],
      [GoodHelloRetryRequest EXCEPT !.extension_types = {"supported_versions", "key_share", "early_data"}],
      [GoodHelloRetryRequest EXCEPT !.extension_types = {"supported_versions", "key_share", "cookie"}],
      [GoodHelloRetryRequest EXCEPT !.selected_version = "TLS_V12"],
      [GoodHelloRetryRequest EXCEPT !.ciphersuite = "TLS_AES_128_CCM_SHA256",
                                    !.extension_types = {"supported_versions", "key_share", "early_data"}] }

ServerHellos12 ==
    { GoodServerHello12,
      [GoodServerHello12 EXCEPT !.downgrade = "TLS_V12"],
      [GoodServerHello12 EXCEPT !.downgrade = "TLS_V11"],
      [GoodServerHello12 EXCEPT !.selected_version = "TLS_V11"] }

OtherHandshakeMessages ==
    { [NoMsg EXCEPT !.kind = "Encrypted_Extensions"] }
    \cup { [NoMsg EXCEPT !.kind = "Certificate_13", !.cert_chain = n,
                         !.ext_valid = e, !.valid = v] :
              n \in {0, 1}, e \in BOOLEAN, v \in BOOLEAN }
    \cup { [NoMsg EXCEPT !.kind = "Certificate_Verify_13", !.valid = v] : v \in BOOLEAN }
    \cup { [NoMsg EXCEPT !.kind = "Finished_13", !.valid = v] : v \in BOOLEAN }

Handshake_Message_13 ==
    ServerHellos13 \cup HelloRetryRequests \cup ServerHellos12 \cup OtherHandshakeMessages

Post_Handshake_Message_13 ==
    { [NoMsg EXCEPT !.kind = "New_Session_Ticket_13"] }
    \cup { [NoMsg EXCEPT !.kind = "Key_Update", !.request_update = r] : r \in BOOLEAN }

----------------------------------------------------------------------------
\* Handshake_State_13

\* The handshake state right after the constructor stored the ClientHello.
InitialHandshakeState(pol) ==
    [client_hello |-> Client_Hello_13(pol),
     has_client_hello |-> TRUE,
     hello_retry_request |-> NoMsg,
     server_hello |-> NoMsg,
     encrypted_extensions |-> NoMsg,
     certificate |-> NoMsg,
     certificate_verify |-> NoMsg,
     server_finished |-> NoMsg,
     client_finished |-> FALSE]

\* Handshake_State_13::received: the message is stored in its slot.
received(hs, msg) ==
    CASE msg.kind \in {"Server_Hello_13", "Server_Hello_12"} ->
            [hs EXCEPT !.server_hello = msg]
      [] msg.kind = "Hello_Retry_Request" -> [hs EXCEPT !.hello_retry_request = msg]
      [] msg.kind = "Encrypted_Extensions" -> [hs EXCEPT !.encrypted_extensions = msg]
      [] msg.kind = "Certificate_13" -> [hs EXCEPT !.certificate = msg]
      [] msg.kind = "Certificate_Verify_13" -> [hs EXCEPT !.certificate_verify = msg]
      [] msg.kind = "Finished_13" -> [hs EXCEPT !.server_finished = msg]

has_client_hello(hs) == hs.has_client_hello
has_hello_retry_request(hs) == hs.hello_retry_request.kind # "none"
has_server_finished(hs) == hs.server_finished.kind # "none"
has_client_finished(hs) == hs.client_finished

\* Client_Impl_13::handshake_finished
handshake_finished(hs) == has_server_finished(hs) /\ has_client_finished(hs)

\* Handshake_Transitions::confirm_transition_to: TRUE iff the type is expected.
confirm_transition_to(expected, msg_type) == msg_type \in expected

\* Policy / Channel_Impl_13 predicates.
tls_13_middlebox_compatibility_mode(pol) == pol.compat
expects_downgrade(pol) == pol.allow_tls12

\* Cipher_State, seen from the handshake driver.
NoCipherState == [epoch |-> "none", read_key |-> 0, write_key |-> 0]
init_with_server_hello == [epoch |-> "handshake_traffic", read_key |-> 0, write_key |-> 0]
advance_with_server_finished(cs) ==
    IF cs.epoch = "handshake_traffic"
    THEN [cs EXCEPT !.epoch = "application_traffic_partial"] ELSE cs
advance_with_client_finished(cs) ==
    IF cs.epoch = "application_traffic_partial"
    THEN [cs EXCEPT !.epoch = "application_traffic"] ELSE cs
update_read_keys(cs) == [cs EXCEPT !.read_key = @ + 1]
update_write_keys(cs) == [cs EXCEPT !.write_key = @ + 1]

\* One entry of the log: what happened, the transcript handed to the
\* operation (if any) and the cipher state in force at that moment.
Ev(what, th, cs) == [ev |-> what, th |-> th, cs |-> cs]

\* Transcript_Hash_State::recreate_after_hello_retry_request: the first
\* ClientHello is replaced by the synthetic message_hash message.
recreate_after_hello_retry_request(th) ==
    <<"message_hash">> \o SubSeq(th, 2, Len(th))

----------------------------------------------------------------------------
\* A handler throws: the exception leaves the client and ends the connection.
\* The slot written by received() and the transcript update stay.
Throw(a, hs, th) ==
    /\ alert' = a
    /\ m_handshake_state' = hs
    /\ m_transcript_hash' = th
    /\ UNCHANGED <<policy, m_transitions, m_cipher_state, log, key_updates>>


\* validate_server_hello_ish without the comparison of the session ids.
validate_server_hello_ish_no_echo(ch, sh) ==
    IF sh.ciphersuite \notin ch.ciphersuites THEN "illegal_parameter"
    ELSE IF sh.selected_version \notin ch.supported_versions THEN "illegal_parameter"
    ELSE IF \E ext_type \in sh.extension_types :
                ext_type # "cookie" /\ ext_type \notin ch.extension_types
         THEN "unsupported_extension"
    ELSE "none"

\* validate_server_hello_ish: the alert it throws, or "none".
validate_server_hello_ish(ch, sh) ==
    IF ch.session_id # sh.session_id THEN "illegal_parameter"
    ELSE IF sh.ciphersuite \notin ch.ciphersuites THEN "illegal_parameter"
    ELSE IF sh.selected_version \notin ch.supported_versions THEN "illegal_parameter"
    ELSE IF \E ext_type \in sh.extension_types :
                ext_type # "cookie" /\ ext_type \notin ch.extension_types
         THEN "unsupported_extension"
    ELSE "none"

\* handle(const Server_Hello_12&) that leaves the expectations as they are.
handle_Server_Hello_12_expecting(server_hello_msg, hs, th) ==
    IF has_hello_retry_request(hs) THEN Throw("unexpected_message", hs, th)
    ELSE IF server_hello_msg.downgrade # "none" THEN Throw("illegal_parameter", hs, th)
    ELSE IF "supported_versions" \in server_hello_msg.extension_types
         THEN Throw("illegal_parameter", hs, th)
    ELSE IF server_hello_msg.selected_version \notin hs.client_hello.supported_versions
         THEN Throw("illegal_parameter", hs, th)
    ELSE IF ~expects_downgrade(policy) THEN Throw("Internal_Error", hs, th)
    ELSE /\ m_handshake_state' = hs
         /\ m_transcript_hash' = th
         /\ UNCHANGED <<policy, m_transitions, m_cipher_state, log, alert, key_updates>>

\* Client_Impl_13::handle(const Server_Hello_12&)
handle_Server_Hello_12(server_hello_msg, hs, th) ==
    IF has_hello_retry_request(hs) THEN Throw("unexpected_message", hs, th)
    ELSE IF server_hello_msg.downgrade # "none" THEN Throw("illegal_parameter", hs, th)
    ELSE IF "supported_versions" \in server_hello_msg.extension_types
         THEN Throw("illegal_parameter", hs, th)
    ELSE IF server_hello_msg.selected_version \notin hs.client_hello.supported_versions
         THEN Throw("illegal_parameter", hs, th)
    ELSE IF ~expects_downgrade(policy) THEN Throw("Internal_Error", hs, th)
    ELSE /\ m_transitions' = {}
         /\ m_handshake_state' = hs
         /\ m_transcript_hash' = th
         /\ UNCHANGED <<policy, m_cipher_state, log, alert, key_updates>>

\* handle(const Server_Hello_13&) that does not compare the ServerHello with
\* the HelloRetryRequest.
handle_Server_Hello_13_ignoring_retry(sh, hs, th) ==
    LET ch == hs.client_hello
    IN
    IF sh.downgrade = "TLS_V11" THEN Throw("protocol_version", hs, th)
    ELSE IF sh.downgrade = "TLS_V12" THEN Throw("Not_Implemented", hs, th)
    ELSE IF validate_server_hello_ish(ch, sh) # "none"
         THEN Throw(validate_server_hello_ish(ch, sh), hs, th)
    ELSE IF "key_share" \notin sh.extension_types THEN Throw("Not_Implemented", hs, th)
    ELSE IF "key_share" \notin ch.extension_types THEN Throw("Internal_Error", hs, th)
    ELSE /\ m_cipher_state' = init_with_server_hello
         /\ log' = log \o << Ev("init_with_server_hello", th, init_with_server_hello),
                             Ev("tls_examine_extensions", <<>>, init_with_server_hello) >>
         /\ m_transitions' = {ENCRYPTED_EXTENSIONS}
         /\ m_handshake_state' = hs
         /\ m_transcript_hash' = th
         /\ UNCHANGED <<policy, alert, key_updates>>

\* Client_Impl_13::handle(const Server_Hello_13&)
handle_Server_Hello_13(sh, hs, th) ==
    LET ch == hs.client_hello
        hrr == hs.hello_retry_request
    IN
    IF sh.downgrade = "TLS_V11" THEN Throw("protocol_version", hs, th)
    ELSE IF sh.downgrade = "TLS_V12" THEN Throw("Not_Implemented", hs, th)
    ELSE IF validate_server_hello_ish(ch, sh) # "none"
         THEN Throw(validate_server_hello_ish(ch, sh), hs, th)
    ELSE IF has_hello_retry_request(hs) /\ hrr.ciphersuite # sh.ciphersuite
         THEN Throw("illegal_parameter", hs, th)
    ELSE IF has_hello_retry_request(hs) /\ hrr.selected_version # sh.selected_version
         THEN Throw("illegal_parameter", hs, th)
    ELSE IF "key_share" \notin sh.extension_types THEN Throw("Not_Implemented", hs, th)
    ELSE IF "key_share" \notin ch.extension_types THEN Throw("Internal_Error", hs, th)
    ELSE /\ m_cipher_state' = init_with_server_hello
         /\ log' = log \o << Ev("init_with_server_hello", th, init_with_server_hello),
                             Ev("tls_examine_extensions", <<>>, init_with_server_hello) >>
         /\ m_transitions' = {ENCRYPTED_EXTENSIONS}
         /\ m_handshake_state' = hs
         /\ m_transcript_hash' = th
         /\ UNCHANGED <<policy, alert, key_updates>>

\* handle(const Hello_Retry_Request&) with the expectations of the
\* constructor left in place: a further HelloRetryRequest is expected.
handle_Hello_Retry_Request_again(hrr, hs, th) ==
    LET ch == hs.client_hello
        retried == [ch EXCEPT !.retried = TRUE,
                              !.extension_types =
                                  @ \cup (hrr.extension_types \cap {"cookie"})]
        ccs == IF tls_13_middlebox_compatibility_mode(policy)
               THEN << Ev("send_dummy_change_cipher_spec", <<>>, m_cipher_state) >>
               ELSE << >>
    IN
    IF validate_server_hello_ish(ch, hrr) # "none"
    THEN Throw(validate_server_hello_ish(ch, hrr), hs, th)
    ELSE /\ m_handshake_state' = [hs EXCEPT !.client_hello = retried]
         /\ m_transcript_hash' =
                Append(recreate_after_hello_retry_request(th), "Client_Hello")
         /\ log' = log \o ccs \o << Ev("send Client_Hello", <<>>, m_cipher_state) >>
         /\ m_transitions' = {SERVER_HELLO, HELLO_RETRY_REQUEST}
         /\ UNCHANGED <<policy, m_cipher_state, alert, key_updates>>

\* Client_Impl_13::handle(const Hello_Retry_Request&)
handle_Hello_Retry_Request(hrr, hs, th) ==
    LET ch == hs.client_hello
        retried == [ch EXCEPT !.retried = TRUE,
                              !.extension_types =
                                  @ \cup (hrr.extension_types \cap {"cookie"})]
        ccs == IF tls_13_middlebox_compatibility_mode(policy)
               THEN << Ev("send_dummy_change_cipher_spec", <<>>, m_cipher_state) >>
               ELSE << >>
    IN
    IF validate_server_hello_ish(ch, hrr) # "none"
    THEN Throw(validate_server_hello_ish(ch, hrr), hs, th)
    ELSE /\ m_handshake_state' = [hs EXCEPT !.client_hello = retried]
         /\ m_transcript_hash' =
                Append(recreate_after_hello_retry_request(th), "Client_Hello")
         /\ log' = log \o ccs \o << Ev("send Client_Hello", <<>>, m_cipher_state) >>
         /\ m_transitions' = {SERVER_HELLO}
         /\ UNCHANGED <<policy, m_cipher_state, alert, key_updates>>

\* Client_Impl_13::handle(const Encrypted_Extensions&)
handle_Encrypted_Extensions(encrypted_extensions_msg, hs, th) ==
    /\ log' = Append(log, Ev("tls_examine_extensions", <<>>, m_cipher_state))
    /\ m_transitions' = {CERTIFICATE, CERTIFICATE_REQUEST}
    /\ m_handshake_state' = hs
    /\ m_transcript_hash' = th
    /\ UNCHANGED <<policy, m_cipher_state, alert, key_updates>>

\* Client_Impl_13::handle(const Certificate_13&)
handle_Certificate_13(certificate_msg, hs, th) ==
    IF ~certificate_msg.ext_valid THEN Throw("illegal_parameter", hs, th)
    ELSE IF certificate_msg.cert_chain = 0 THEN Throw("decode_error", hs, th)
    ELSE IF ~certificate_msg.valid THEN Throw("bad_certificate", hs, th)
    ELSE /\ log' = Append(log, Ev("tls_verify_cert_chain", <<>>, m_cipher_state))
         /\ m_transitions' = {CERTIFICATE_VERIFY}
         /\ m_handshake_state' = hs
         /\ m_transcript_hash' = th
         /\ UNCHANGED <<policy, m_cipher_state, alert, key_updates>>

\* Client_Impl_13::handle(const Certificate_Verify_13&)
handle_Certificate_Verify_13(certificate_verify_msg, hs, th) ==
    IF ~certificate_verify_msg.valid THEN Throw("decrypt_error", hs, th)
    ELSE /\ log' = Append(log, Ev("Certificate_Verify_13 verify",
                                   SubSeq(th, 1, Len(th) - 1), m_cipher_state))
         /\ m_transitions' = {FINISHED}
         /\ m_handshake_state' = hs
         /\ m_transcript_hash' = th
         /\ UNCHANGED <<policy, m_cipher_state, alert, key_updates>>

\* handle(const Finished_13&) without the check of the server's MAC.
handle_Finished_13_unverified(finished_msg, hs, th) ==
    LET ccs == IF tls_13_middlebox_compatibility_mode(policy)
               THEN << Ev("send_dummy_change_cipher_spec", <<>>, m_cipher_state) >>
               ELSE << >>
        th_sent == Append(th, "Client_Finished")
        cs1 == advance_with_server_finished(m_cipher_state)
        cs2 == advance_with_client_finished(cs1)
    IN
    /\ m_handshake_state' = [hs EXCEPT !.client_finished = TRUE]
    /\ m_transcript_hash' = th_sent
    /\ m_cipher_state' = cs2
    /\ log' = log
              \o ccs
              \o << Ev("send Finished", th, m_cipher_state),
                    Ev("advance_with_server_finished", th, cs1),
                    Ev("advance_with_client_finished", th_sent, cs2),
                    Ev("tls_session_activated", <<>>, cs2) >>
    /\ m_transitions' = {}
    /\ UNCHANGED <<policy, alert, key_updates>>

\* handle(const Finished_13&) that advances the cipher state before it sends
\* the client's Finished.
handle_Finished_13_advancing_first(finished_msg, hs, th) ==
    LET ccs == IF tls_13_middlebox_compatibility_mode(policy)
               THEN << Ev("send_dummy_change_cipher_spec", <<>>, m_cipher_state) >>
               ELSE << >>
        th_sent == Append(th, "Client_Finished")
        cs1 == advance_with_server_finished(m_cipher_state)
        cs2 == advance_with_client_finished(cs1)
    IN
    IF ~finished_msg.valid THEN Throw("decrypt_error", hs, th)
    ELSE /\ m_handshake_state' = [hs EXCEPT !.client_finished = TRUE]
         /\ m_transcript_hash' = th_sent
         /\ m_cipher_state' = cs2
         /\ log' = log
                   \o << Ev("Finished_13 verify", SubSeq(th, 1, Len(th) - 1),
                            m_cipher_state) >>
                   \o ccs
                   \o << Ev("advance_with_server_finished", th, cs1),
                         Ev("advance_with_client_finished", th_sent, cs2),
                         Ev("send Finished", th, cs2),
                         Ev("tls_session_activated", <<>>, cs2) >>
         /\ m_transitions' = {}
         /\ UNCHANGED <<policy, alert, key_updates>>

\* Client_Impl_13::handle(const Finished_13&)
handle_Finished_13(finished_msg, hs, th) ==
    LET ccs == IF tls_13_middlebox_compatibility_mode(policy)
               THEN << Ev("send_dummy_change_cipher_spec", <<>>, m_cipher_state) >>
               ELSE << >>
        \* the transcript after the client Finished was sent: current() then,
        \* and th is previous()
        th_sent == Append(th, "Client_Finished")
        cs1 == advance_with_server_finished(m_cipher_state)
        cs2 == advance_with_client_finished(cs1)
    IN
    IF ~finished_msg.valid THEN Throw("decrypt_error", hs, th)
    ELSE /\ m_handshake_state' = [hs EXCEPT !.client_finished = TRUE]
         /\ m_transcript_hash' = th_sent
         /\ m_cipher_state' = cs2
         /\ log' = log
                   \o << Ev("Finished_13 verify", SubSeq(th, 1, Len(th) - 1),
                            m_cipher_state) >>
                   \o ccs
                   \o << Ev("send Finished", th, m_cipher_state),
                         Ev("advance_with_server_finished", th, cs1),
                         Ev("advance_with_client_finished", th_sent, cs2),
                         Ev("tls_session_activated", <<>>, cs2) >>
         /\ m_transitions' = {}
         /\ UNCHANGED <<policy, alert, key_updates>>

\* The overload of handle() std::visit selects.
handle(msg, hs, th) ==
    CASE msg.kind = "Server_Hello_13" -> handle_Server_Hello_13(msg, hs, th)
      [] msg.kind = "Server_Hello_12" -> handle_Server_Hello_12(msg, hs, th)
      [] msg.kind = "Hello_Retry_Request" -> handle_Hello_Retry_Request(msg, hs, th)
      [] msg.kind = "Encrypted_Extensions" -> handle_Encrypted_Extensions(msg, hs, th)
      [] msg.kind = "Certificate_13" -> handle_Certificate_13(msg, hs, th)
      [] msg.kind = "Certificate_Verify_13" -> handle_Certificate_Verify_13(msg, hs, th)
      [] msg.kind = "Finished_13" -> handle_Finished_13(msg, hs, th)

\* The connection is open: no failure has ended it.
is_active == alert = "none"

\* process_handshake_msg without confirm_transition_to: the handler runs
\* whatever the expectations are.
process_handshake_msg_unconfirmed(message) ==
    /\ is_active
    /\ c_call' = [op |-> "process_handshake_msg", msg |-> message]
    /\ handle(message, received(m_handshake_state, message),
              Append(m_transcript_hash, message.kind))
    /\ accepted' = IF alert' = "none" THEN Append(accepted, message.kind) ELSE accepted
    /\ UNCHANGED rl_vars

\* Client_Impl_13::process_handshake_msg. The message has been appended to
\* the transcript by the handshake layer; received() stores it before the
\* transition is confirmed.
process_handshake_msg(message) ==
    /\ is_active
    /\ c_call' = [op |-> "process_handshake_msg", msg |-> message]
    /\ LET hs == received(m_handshake_state, message)
           th == Append(m_transcript_hash, message.kind)
       IN IF ~confirm_transition_to(m_transitions, type(message))
          THEN Throw("unexpected_message", hs, th)
          ELSE handle(message, hs, th)
    /\ accepted' = IF alert' = "none" THEN Append(accepted, message.kind) ELSE accepted
    /\ UNCHANGED rl_vars

\* Client_Impl_13::handle(const New_Session_Ticket_13&)
handle_New_Session_Ticket_13 ==
    UNCHANGED <<policy, m_transitions, m_handshake_state, m_transcript_hash,
                m_cipher_state, log, alert, key_updates>>

\* handle(const Key_Update&) that rotates the write keys before it answers.
handle_Key_Update_rotating_first(key_update) ==
    LET cs1 == update_read_keys(m_cipher_state)
        cs2 == update_write_keys(cs1)
    IN
    /\ key_updates' = key_updates + 1
    /\ IF key_update.request_update
       THEN /\ log' = log \o << Ev("update_read_keys", <<>>, cs1),
                                Ev("update_write_keys", <<>>, cs2),
                                Ev("send Key_Update(update_not_requested)", <<>>, cs2) >>
            /\ m_cipher_state' = cs2
       ELSE /\ log' = Append(log, Ev("update_read_keys", <<>>, cs1))
            /\ m_cipher_state' = cs1
    /\ UNCHANGED <<policy, m_transitions, m_handshake_state, m_transcript_hash, alert>>

\* Client_Impl_13::handle(const Key_Update&)
handle_Key_Update(key_update) ==
    LET cs1 == update_read_keys(m_cipher_state)
        cs2 == update_write_keys(cs1)
    IN
    /\ key_updates' = key_updates + 1
    /\ IF key_update.request_update
       THEN /\ log' = log \o << Ev("update_read_keys", <<>>, cs1),
                                Ev("send Key_Update(update_not_requested)", <<>>, cs1),
                                Ev("update_write_keys", <<>>, cs2) >>
            /\ m_cipher_state' = cs2
       ELSE /\ log' = Append(log, Ev("update_read_keys", <<>>, cs1))
            /\ m_cipher_state' = cs1
    /\ UNCHANGED <<policy, m_transitions, m_handshake_state, m_transcript_hash, alert>>

\* process_post_handshake_msg without BOTAN_STATE_CHECK(handshake_finished()).
process_post_handshake_msg_unchecked(message) ==
    /\ is_active
    /\ key_updates < MaxKeyUpdates
    /\ c_call' = [op |-> "process_post_handshake_msg", msg |-> message]
    /\ IF message.kind = "Key_Update" THEN handle_Key_Update(message)
       ELSE handle_New_Session_Ticket_13
    /\ UNCHANGED accepted
    /\ UNCHANGED rl_vars

\* Client_Impl_13::process_post_handshake_msg
process_post_handshake_msg(message) ==
    /\ is_active
    /\ key_updates < MaxKeyUpdates
    /\ c_call' = [op |-> "process_post_handshake_msg", msg |-> message]
    /\ IF ~handshake_finished(m_handshake_state)
       THEN Throw("Invalid_State", m_handshake_state, m_transcript_hash)
       ELSE IF message.kind = "Key_Update" THEN handle_Key_Update(message)
       ELSE handle_New_Session_Ticket_13
    /\ UNCHANGED accepted
    /\ UNCHANGED rl_vars

\* process_dummy_change_cipher_spec that drops the record whenever it comes.
process_dummy_change_cipher_spec_dropping ==
    /\ is_active
    /\ c_call' = [op |-> "process_dummy_change_cipher_spec", msg |-> NoMsg]
    /\ UNCHANGED <<policy, m_transitions, m_handshake_state, m_transcript_hash,
                   m_cipher_state, log, alert, key_updates>>
    /\ UNCHANGED accepted
    /\ UNCHANGED rl_vars

\* Client_Impl_13::process_dummy_change_cipher_spec
process_dummy_change_cipher_spec ==
    /\ is_active
    /\ c_call' = [op |-> "process_dummy_change_cipher_spec", msg |-> NoMsg]
    /\ IF ~has_client_hello(m_handshake_state) \/ has_server_finished(m_handshake_state)
       THEN Throw("unexpected_message", m_handshake_state, m_transcript_hash)
       ELSE UNCHANGED <<policy, m_transitions, m_handshake_state, m_transcript_hash,
                        m_cipher_state, log, alert, key_updates>>
    /\ UNCHANGED accepted
    /\ UNCHANGED rl_vars

\* Client_Impl_13::Client_Impl_13: the ClientHello is sent and the first
\* expectations are set.
InitClient ==
    /\ policy \in [compat : BOOLEAN, allow_tls12 : BOOLEAN]
    /\ m_handshake_state = InitialHandshakeState(policy)
    /\ m_transcript_hash = <<"Client_Hello">>
    /\ m_cipher_state = NoCipherState
    /\ log = << Ev("send Client_Hello", <<>>, NoCipherState) >>
    /\ m_transitions = {SERVER_HELLO, HELLO_RETRY_REQUEST}
    /\ alert = "none"
    /\ c_call = [op |-> "Client_Impl_13", msg |-> NoMsg]
    /\ accepted = << >>
    /\ key_updates = 0

NextClient ==
    \/ \E message \in Handshake_Message_13 : process_handshake_msg(message)
    \/ \E message \in Post_Handshake_Message_13 : process_post_handshake_msg(message)
    \/ process_dummy_change_cipher_spec


(***************************************************************************)
(*                          PART II: Record_Layer                          *)
(***************************************************************************)

TLS_HEADER_SIZE == 5
MAX_PLAINTEXT_SIZE == 16384
MAX_CIPHERTEXT_SIZE_TLS13 == 16640

\* Record_Type
CHANGE_CIPHER_SPEC == 20
ALERT == 21
HANDSHAKE == 22
APPLICATION_DATA == 23
Record_Type == {CHANGE_CIPHER_SPEC, ALERT, HANDSHAKE, APPLICATION_DATA}

\* Connection_Side
CLIENT == "CLIENT"
SERVER == "SERVER"
Connection_Side == {CLIENT, SERVER}
Peer(side) == IF side = CLIENT THEN SERVER ELSE CLIENT

Min(a, b) == IF a < b THEN a ELSE b
Max(a, b) == IF a > b THEN a ELSE b

\* make_uint16 and get_byte<0>, get_byte<1> of a uint16_t
make_uint16(hi, lo) == hi * 256 + lo
get_byte_0(v) == (v \div 256) % 256
get_byte_1(v) == v % 256

\* The sum of the bytes data[lo..hi], by halving (the sequences are long).
RECURSIVE SumRange(_, _, _)
SumRange(data, lo, hi) ==
    IF lo > hi THEN 0
    ELSE IF lo = hi THEN data[lo]
    ELSE LET mid == (lo + hi) \div 2
         IN SumRange(data, lo, mid) + SumRange(data, mid + 1, hi)
ByteSum(data) == SumRange(data, 1, Len(data))

----------------------------------------------------------------------------
\* Cipher_State, seen from the record layer: an AEAD with a 16 byte tag. The
\* key stream depends on the traffic key of the writing side and on the
\* sequence number; the tag covers the header, the plaintext and both.
AEAD_TAG_SIZE == 16

traffic_key(writer) == IF writer = CLIENT THEN 37 ELSE 91

\* Cipher_State::encrypt_output_length
encrypt_output_length(input_length) == input_length + AEAD_TAG_SIZE

aead_tag(key, seq_no, header, fragment) ==
    LET mac == ByteSum(header) + ByteSum(fragment) + 3 * Len(fragment) + key + seq_no
    IN [j \in 1..AEAD_TAG_SIZE |-> (mac + 7 * j) % 256]

\* Cipher_State::encrypt_record_fragment: the fragment, encrypted, and the tag
encrypt_record_fragment(key, seq_no, header, fragment) ==
    [i \in 1..Len(fragment) |-> (fragment[i] + key + seq_no + i) % 256]
    \o aead_tag(key, seq_no, header, fragment)

\* Cipher_State::decrypt_record_fragment: ok is FALSE when the fragment is
\* shorter than a tag or the tag does not verify (bad_record_mac).
decrypt_record_fragment(key, seq_no, header, fragment) ==
    IF Len(fragment) < AEAD_TAG_SIZE
    THEN [ok |-> FALSE, fragment |-> <<>>, seq_no |-> seq_no]
    ELSE LET n == Len(fragment) - AEAD_TAG_SIZE
             plain == [i \in 1..n |-> (fragment[i] - key - seq_no - i) % 256]
         IN IF SubSeq(fragment, n + 1, Len(fragment)) = aead_tag(key, seq_no, header, plain)
            THEN [ok |-> TRUE, fragment |-> plain, seq_no |-> seq_no]
            ELSE [ok |-> FALSE, fragment |-> <<>>, seq_no |-> seq_no]

----------------------------------------------------------------------------
\* What a record-layer call returns or throws.
NoResult ==
    [kind |-> "none", alert |-> "", msg |-> "", n |-> 0, type |-> 0,
     fragment |-> <<>>, seq_no |-> -1, output |-> <<>>]
NeedMore(n) == [NoResult EXCEPT !.kind = "NeedMore", !.n = n]
Record(record_type, fragment, seq_no) ==
    [NoResult EXCEPT !.kind = "Record", !.type = record_type, !.fragment = fragment,
                     !.seq_no = seq_no]
TLS_Exception(alert_type, msg) ==
    [NoResult EXCEPT !.kind = "TLS_Exception", !.alert = alert_type, !.msg = msg]
Internal_Error(msg) == [NoResult EXCEPT !.kind = "Internal_Error", !.msg = msg]
Invalid_Argument(msg) == [NoResult EXCEPT !.kind = "Invalid_Argument", !.msg = msg]
Output(bytes) == [NoResult EXCEPT !.kind = "Output", !.output = bytes]
\* the outcome of undefined behaviour that is not one of the above
Crash == [NoResult EXCEPT !.kind = "Crash"]

\* verify_change_cipher_spec(data, size): data is only read when size is 1
verify_change_cipher_spec(data, size) == size = 1 /\ data[1] = 1

\* read_record_type, taking every byte for a record type
read_record_type_any(type_byte) == TRUE

\* read_record_type: is the byte one of the four record types?
read_record_type(type_byte) ==
    ~ (type_byte # APPLICATION_DATA /\ type_byte # HANDSHAKE
       /\ type_byte # ALERT /\ type_byte # CHANGE_CIPHER_SPEC)

\* TLSPlaintext_Header(hdr, initial_record) with the length limits off by
\* one: a fragment length equal to the limit is rejected too.
TLSPlaintext_Header_parse_off_by_one(hdr, initial_record) ==
    LET legacy_version == make_uint16(hdr[2], hdr[3])
        fragment_length == make_uint16(hdr[4], hdr[5])
        header == [ok |-> TRUE, exception |-> NoResult, type |-> hdr[1],
                   legacy_version |-> legacy_version,
                   fragment_length |-> fragment_length, serialized |-> hdr]
        throw(e) == [header EXCEPT !.ok = FALSE, !.exception = e]
    IN
    IF ~read_record_type(hdr[1])
    THEN throw(TLS_Exception("unexpected_message", "unexpected message received"))
    ELSE IF legacy_version # 771 /\ ~(initial_record /\ legacy_version = 769)
    THEN throw(TLS_Exception("protocol_version", "invalid record version"))
    ELSE IF fragment_length = 0 /\ hdr[1] # APPLICATION_DATA
    THEN throw(TLS_Exception("decode_error", "empty record received"))
    ELSE IF hdr[1] = APPLICATION_DATA /\ fragment_length >= MAX_CIPHERTEXT_SIZE_TLS13
    THEN throw(TLS_Exception("record_overflow", "overflowing record received"))
    ELSE IF hdr[1] # APPLICATION_DATA /\ fragment_length >= MAX_PLAINTEXT_SIZE
    THEN throw(TLS_Exception("record_overflow", "overflowing record received"))
    ELSE header

\* TLSPlaintext_Header(hdr, initial_record): the parsed header, or the
\* exception the constructor throws.
TLSPlaintext_Header_parse(hdr, initial_record) ==
    LET legacy_version == make_uint16(hdr[2], hdr[3])
        fragment_length == make_uint16(hdr[4], hdr[5])
        header == [ok |-> TRUE, exception |-> NoResult, type |-> hdr[1],
                   legacy_version |-> legacy_version,
                   fragment_length |-> fragment_length, serialized |-> hdr]
        throw(e) == [header EXCEPT !.ok = FALSE, !.exception = e]
    IN
    IF ~read_record_type(hdr[1])
    THEN throw(TLS_Exception("unexpected_message", "unexpected message received"))
    ELSE IF legacy_version # 771 /\ ~(initial_record /\ legacy_version = 769)
    THEN throw(TLS_Exception("protocol_version", "invalid record version"))
    ELSE IF fragment_length = 0 /\ hdr[1] # APPLICATION_DATA
    THEN throw(TLS_Exception("decode_error", "empty record received"))
    ELSE IF hdr[1] = APPLICATION_DATA /\ fragment_length > MAX_CIPHERTEXT_SIZE_TLS13
    THEN throw(TLS_Exception("record_overflow", "overflowing record received"))
    ELSE IF hdr[1] # APPLICATION_DATA /\ fragment_length > MAX_PLAINTEXT_SIZE
    THEN throw(TLS_Exception("record_overflow", "overflowing record received"))
    ELSE header

\* TLSPlaintext_Header(record_type, frgmnt_length, use_compatibility_version)
\* .serialized; the length is cast to uint16_t.
TLSPlaintext_Header_make(record_type, frgmnt_length, use_compatibility_version) ==
    LET legacy_version == IF use_compatibility_version THEN 769 ELSE 771
        fragment_length == frgmnt_length % 65536
    IN << record_type, get_byte_0(legacy_version), get_byte_1(legacy_version),
          get_byte_0(fragment_length), get_byte_1(fragment_length) >>


----------------------------------------------------------------------------
\* Record_Layer::prepare_records

\* One record put on the wire, as read from its header, with what the call
\* that produced it was given.
Emitted(record_header, content_type, protect, payload, via) ==
    [type |-> record_header[1],
     legacy_version |-> make_uint16(record_header[2], record_header[3]),
     fragment_length |-> make_uint16(record_header[4], record_header[5]),
     content_type |-> content_type,
     protected |-> protect,
     plaintext_length |-> Len(payload),
     via |-> via]

\* The do-while loop of prepare_records, from one iteration on: the bytes
\* written, the records they make up, and the state it leaves.
RECURSIVE prepare_records_loop(_, _, _, _, _, _, _, _, _)
prepare_records_loop(side, record_type, data, protect, via, pt_offset, to_process, initial_record, seq_no) ==
    LET pt_size == Min(to_process, MAX_PLAINTEXT_SIZE)
        ct_size == IF ~protect THEN pt_size ELSE encrypt_output_length(pt_size + 1)
        pt_type == IF ~protect THEN record_type ELSE APPLICATION_DATA
        use_compatibility_version == side = CLIENT /\ initial_record
        record_header == TLSPlaintext_Header_make(pt_type, ct_size, use_compatibility_version)
        chunk == SubSeq(data, pt_offset + 1, pt_offset + pt_size)
        fragment == IF protect
                    THEN encrypt_record_fragment(traffic_key(side), seq_no, record_header,
                                                 Append(chunk, record_type % 256))
                    ELSE chunk
        this == [output |-> record_header \o fragment,
                 emitted |-> << Emitted(record_header, record_type, protect, chunk, via) >>,
                 initial_record |-> FALSE,
                 seq_no |-> IF protect THEN seq_no + 1 ELSE seq_no]
    IN IF to_process - pt_size > 0
       THEN LET rest == prepare_records_loop(side, record_type, data, protect, via,
                                             pt_offset + pt_size, to_process - pt_size,
                                             this.initial_record, this.seq_no)
            IN [rest EXCEPT !.output = this.output \o @,
                            !.emitted = this.emitted \o @]
       ELSE this

\* The checks prepare_records makes of its arguments before it writes
\* anything, without the one of application data: what it throws, or
\* NoResult.
prepare_records_checks_unprotected(side, initial_record, record_type, data, protect) ==
    IF ~(~initial_record \/ side = CLIENT)
    THEN Internal_Error("the initial record is always sent by the client")
    ELSE IF ~(Len(data) # 0 \/ record_type = APPLICATION_DATA)
    THEN Internal_Error(
            "zero-length fragments of types other than application data are not allowed")
    ELSE IF record_type = CHANGE_CIPHER_SPEC /\ ~verify_change_cipher_spec(data, Len(data))
    THEN Invalid_Argument("TLS 1.3 deprecated CHANGE_CIPHER_SPEC")
    ELSE NoResult

\* The checks prepare_records makes of its arguments before it writes
\* anything: what it throws, or NoResult when they pass.
prepare_records_checks(side, initial_record, record_type, data, protect) ==
    IF ~(~initial_record \/ side = CLIENT)
    THEN Internal_Error("the initial record is always sent by the client")
    ELSE IF ~(protect \/ record_type # APPLICATION_DATA)
    THEN Internal_Error(
            "Application Data records MUST NOT be written to the wire unprotected")
    ELSE IF ~(Len(data) # 0 \/ record_type = APPLICATION_DATA)
    THEN Internal_Error(
            "zero-length fragments of types other than application data are not allowed")
    ELSE IF record_type = CHANGE_CIPHER_SPEC /\ ~verify_change_cipher_spec(data, Len(data))
    THEN Invalid_Argument("TLS 1.3 deprecated CHANGE_CIPHER_SPEC")
    ELSE NoResult

\* prepare_records as a function of the object's state and the arguments:
\* the result, the records returned and the state the call leaves.
prepare_records_outcome(side, initial_record, seq_no, record_type, data, protect, via) ==
    LET refused(r) == [result |-> r, emitted |-> <<>>,
                       initial_record |-> initial_record, seq_no |-> seq_no]
        checked == prepare_records_checks(side, initial_record, record_type, data, protect)
        records == Max((Len(data) + MAX_PLAINTEXT_SIZE - 1) \div MAX_PLAINTEXT_SIZE, 1)
        output_length ==
            records * TLS_HEADER_SIZE
            + (IF protect
               THEN encrypt_output_length(MAX_PLAINTEXT_SIZE + 1) * (records - 1)
                    + encrypt_output_length((Len(data) % MAX_PLAINTEXT_SIZE) + 1)
               ELSE Len(data))
        done == prepare_records_loop(side, record_type, data, protect, via,
                                     0, Len(data), initial_record, seq_no)
    IN
    IF checked # NoResult
    THEN refused(checked)
    ELSE IF ~(Len(data) # 0 \/ protect)
    THEN refused(Internal_Error("to_process != 0 || protect"))
    ELSE IF Len(done.output) # output_length
    THEN \* the last assertion throws after the loop has run: nothing is returned
         [result |-> Internal_Error("output.size() == output_length"),
          emitted |-> <<>>,
          initial_record |-> done.initial_record, seq_no |-> done.seq_no]
    ELSE [result |-> Output(done.output), emitted |-> done.emitted,
          initial_record |-> done.initial_record, seq_no |-> done.seq_no]

\* The arguments of a record-layer call and the state it found.
Call(op, side, record_type, data, protect) ==
    [op |-> op, side |-> side, type |-> record_type, data |-> data, protect |-> protect,
     initial_record |-> m_initial_record[side],
     read_buffer |-> m_read_buffer[side],
     read_seq |-> cs_read_seq[side],
     write_seq |-> cs_write_seq[side],
     emitted |-> Len(emitted[side])]

\* Record_Layer::prepare_records(type, data, cipher_state); protect tells
\* whether a cipher state was handed in.
prepare_records(side, record_type, data, protect) ==
    LET o == prepare_records_outcome(side, m_initial_record[side], cs_write_seq[side],
                                     record_type, data, protect, "prepare_records")
    IN /\ call' = Call("prepare_records", side, record_type, data, protect)
       /\ result' = o.result
       /\ m_initial_record' = [m_initial_record EXCEPT ![side] = o.initial_record]
       /\ cs_write_seq' = [cs_write_seq EXCEPT ![side] = o.seq_no]
       /\ emitted' = [emitted EXCEPT ![side] = @ \o o.emitted]
       /\ UNCHANGED <<m_read_buffer, cs_read_seq>>

\* Record_Layer::prepare_dummy_ccs_record
prepare_dummy_ccs_record(side) ==
    LET o == IF ~(~m_initial_record[side])
             THEN [result |-> Internal_Error("CCS must not be the initial record"),
                   emitted |-> <<>>,
                   initial_record |-> m_initial_record[side],
                   seq_no |-> cs_write_seq[side]]
             ELSE prepare_records_outcome(side, m_initial_record[side], cs_write_seq[side],
                                          CHANGE_CIPHER_SPEC, <<1>>, FALSE,
                                          "prepare_dummy_ccs_record")
    IN /\ call' = Call("prepare_dummy_ccs_record", side, CHANGE_CIPHER_SPEC, <<1>>, FALSE)
       /\ result' = o.result
       /\ m_initial_record' = [m_initial_record EXCEPT ![side] = o.initial_record]
       /\ cs_write_seq' = [cs_write_seq EXCEPT ![side] = o.seq_no]
       /\ emitted' = [emitted EXCEPT ![side] = @ \o o.emitted]
       /\ UNCHANGED <<m_read_buffer, cs_read_seq>>

\* Record_Layer::copy_data
copy_data_prepending(side, data_from_peer) ==
    /\ call' = Call("copy_data", side, 0, data_from_peer, FALSE)
    /\ result' = [NoResult EXCEPT !.kind = "void"]
    /\ m_read_buffer' = [m_read_buffer EXCEPT ![side] = data_from_peer \o @]
    /\ UNCHANGED <<m_initial_record, cs_write_seq, cs_read_seq, emitted>>

copy_data(side, data_from_peer) ==
    /\ call' = Call("copy_data", side, 0, data_from_peer, FALSE)
    /\ result' = [NoResult EXCEPT !.kind = "void"]
    /\ m_read_buffer' = [m_read_buffer EXCEPT ![side] = @ \o data_from_peer]
    /\ UNCHANGED <<m_initial_record, cs_write_seq, cs_read_seq, emitted>>


----------------------------------------------------------------------------
\* Record_Layer::next_record

\* next_record as a function of the object's state and of whether a cipher
\* state was handed in: every outcome the call can have, each with the state
\* it leaves. There is more than one only where the code reads the last byte
\* of an empty fragment, which is undefined.
next_record_outcomes(side, initial_record, read_buffer, read_seq, protect) ==
    LET leaves(r, buffer, initial, seq) ==
            [result |-> r, read_buffer |-> buffer, initial_record |-> initial,
             read_seq |-> seq]
        unchanged(r) == leaves(r, read_buffer, initial_record, read_seq)
        plaintext_header ==
            TLSPlaintext_Header_parse(SubSeq(read_buffer, 1, TLS_HEADER_SIZE), initial_record)
        fragment_length == plaintext_header.fragment_length
        fragment == SubSeq(read_buffer, TLS_HEADER_SIZE + 1, TLS_HEADER_SIZE + fragment_length)
        \* m_read_buffer.erase(header_begin, fragment_end)
        erased == SubSeq(read_buffer, TLS_HEADER_SIZE + fragment_length + 1, Len(read_buffer))
        decrypted == decrypt_record_fragment(traffic_key(Peer(side)), read_seq,
                                             plaintext_header.serialized, fragment)
        inner == decrypted.fragment
    IN
    IF ~(~initial_record \/ side = SERVER)
    THEN { unchanged(Internal_Error("the initial record is always received by the server")) }
    ELSE IF Len(read_buffer) < TLS_HEADER_SIZE
    THEN { unchanged(NeedMore(TLS_HEADER_SIZE - Len(read_buffer))) }
    ELSE IF ~plaintext_header.ok
    THEN { unchanged(plaintext_header.exception) }
    ELSE IF Len(read_buffer) < TLS_HEADER_SIZE + fragment_length
    THEN { unchanged(NeedMore(TLS_HEADER_SIZE + fragment_length - Len(read_buffer))) }
    ELSE IF plaintext_header.type = CHANGE_CIPHER_SPEC
            /\ ~verify_change_cipher_spec(fragment, fragment_length)
    THEN { unchanged(TLS_Exception("unexpected_message",
                                   "malformed change cipher spec record received")) }
    ELSE IF plaintext_header.type # APPLICATION_DATA
    THEN { leaves(Record(plaintext_header.type, fragment, -1), erased, FALSE, read_seq) }
    ELSE IF ~protect
    THEN { leaves(TLS_Exception("unexpected_message", "premature Application Data received"),
                  erased, initial_record, read_seq) }
    ELSE IF ~decrypted.ok
    THEN { leaves(TLS_Exception("bad_record_mac", "decryption failed"),
                  erased, initial_record, read_seq) }
    ELSE IF Len(inner) = 0
    THEN \* record.fragment.back() and pop_back() on an empty fragment
         { leaves(TLS_Exception("unexpected_message", "unexpected message received"),
                  erased, initial_record, read_seq + 1),
           leaves(TLS_Exception("unexpected_message", "protected change cipher spec received"),
                  erased, initial_record, read_seq + 1),
           leaves(Crash, erased, initial_record, read_seq + 1) }
         \cup { leaves(Record(t, <<>>, decrypted.seq_no), erased, FALSE, read_seq + 1) :
                   t \in Record_Type \ {CHANGE_CIPHER_SPEC} }
    ELSE IF ~read_record_type(inner[Len(inner)])
    THEN { leaves(TLS_Exception("unexpected_message", "unexpected message received"),
                  erased, initial_record, read_seq + 1) }
    ELSE IF inner[Len(inner)] = CHANGE_CIPHER_SPEC
    THEN { leaves(TLS_Exception("unexpected_message", "protected change cipher spec received"),
                  erased, initial_record, read_seq + 1) }
    ELSE { leaves(Record(inner[Len(inner)], SubSeq(inner, 1, Len(inner) - 1),
                         decrypted.seq_no),
                  erased, FALSE, read_seq + 1) }

\* next_record that drops what is buffered when it asks for more
next_record_dropping(side, protect) ==
    \E o \in next_record_outcomes(side, m_initial_record[side], m_read_buffer[side],
                                  cs_read_seq[side], protect) :
       /\ call' = Call("next_record", side, 0, <<>>, protect)
       /\ result' = o.result
       /\ m_read_buffer' = [m_read_buffer EXCEPT
                              ![side] = IF o.result.kind = "NeedMore" THEN <<>>
                                        ELSE o.read_buffer]
       /\ m_initial_record' = [m_initial_record EXCEPT ![side] = o.initial_record]
       /\ cs_read_seq' = [cs_read_seq EXCEPT ![side] = o.read_seq]
       /\ UNCHANGED <<cs_write_seq, emitted>>

\* next_record that decrypts whether or not it was handed a cipher state
\* (it takes the one of the connection)
next_record_decrypting(side, protect) ==
    \E o \in next_record_outcomes(side, m_initial_record[side], m_read_buffer[side],
                                  cs_read_seq[side], TRUE) :
       /\ call' = Call("next_record", side, 0, <<>>, protect)
       /\ result' = o.result
       /\ m_read_buffer' = [m_read_buffer EXCEPT ![side] = o.read_buffer]
       /\ m_initial_record' = [m_initial_record EXCEPT ![side] = o.initial_record]
       /\ cs_read_seq' = [cs_read_seq EXCEPT ![side] = o.read_seq]
       /\ UNCHANGED <<cs_write_seq, emitted>>

\* Record_Layer::next_record(cipher_state); protect tells whether a cipher
\* state was handed in.
next_record(side, protect) ==
    \E o \in next_record_outcomes(side, m_initial_record[side], m_read_buffer[side],
                                  cs_read_seq[side], protect) :
       /\ call' = Call("next_record", side, 0, <<>>, protect)
       /\ result' = o.result
       /\ m_read_buffer' = [m_read_buffer EXCEPT ![side] = o.read_buffer]
       /\ m_initial_record' = [m_initial_record EXCEPT ![side] = o.initial_record]
       /\ cs_read_seq' = [cs_read_seq EXCEPT ![side] = o.read_seq]
       /\ UNCHANGED <<cs_write_seq, emitted>>

\* Nothing is on its way between the two record layers.
NoRoundTrip ==
    [active |-> FALSE, from |-> CLIENT, type |-> 0, data |-> <<>>, protect |-> FALSE,
     records |-> <<>>]

\* Record_Layer::Record_Layer, for both sides, with their cipher states
InitRecordLayer ==
    /\ m_initial_record = [side \in Connection_Side |-> TRUE]
    /\ m_read_buffer = [side \in Connection_Side |-> <<>>]
    /\ cs_write_seq = [side \in Connection_Side |-> 0]
    /\ cs_read_seq = [side \in Connection_Side |-> 0]
    /\ emitted = [side \in Connection_Side |-> <<>>]
    /\ wire = [side \in Connection_Side |-> <<>>]
    /\ round_trip = NoRoundTrip
    /\ call = [op |-> "Record_Layer", side |-> CLIENT, type |-> 0, data |-> <<>>,
               protect |-> FALSE, initial_record |-> TRUE, read_buffer |-> <<>>,
               read_seq |-> 0, write_seq |-> 0, emitted |-> 0]
    /\ result = NoResult

Init == InitClient /\ InitRecordLayer

\* The handshake driver on its own.
SpecClient == Init /\ [][NextClient]_vars


----------------------------------------------------------------------------
\* Claims about the handshake driver.

\* Where in a sequence of log entries an event occurs.
Occurrences(events, what) == { i \in DOMAIN events : events[i].ev = what }
Times(sequence, x) == Cardinality({ i \in DOMAIN sequence : sequence[i] = x })

StraightHandshake ==
    << "Server_Hello_13", "Encrypted_Extensions", "Certificate_13",
       "Certificate_Verify_13", "Finished_13" >>

\* C1: a handshake message whose type is not in the expected-next set makes
\* process_handshake_msg fail with unexpected_message, and its handler does
\* not run: the cipher state, what was emitted and the expected-next set are
\* as before. Consequently the messages accepted up to completion are at
\* most one HelloRetryRequest, then ServerHello(1.3), EncryptedExtensions,
\* Certificate, CertificateVerify, Finished, in this order, each once.
C1_UnexpectedMessageRejected ==
    /\ [][ (c_call'.op = "process_handshake_msg"
            /\ type(c_call'.msg) \notin m_transitions)
           => (/\ alert' = "unexpected_message"
               /\ m_cipher_state' = m_cipher_state
               /\ log' = log
               /\ accepted' = accepted
               /\ m_transitions' = m_transitions) ]_vars
    /\ [](handshake_finished(m_handshake_state)
          => accepted \in { StraightHandshake,
                            <<"Hello_Retry_Request">> \o StraightHandshake })

\* C1 happens: after a handshake that went through a HelloRetryRequest and
\* completed, one more handshake message was handed in and rejected.
C1_Witness ==
    /\ alert = "unexpected_message"
    /\ c_call.op = "process_handshake_msg"
    /\ handshake_finished(m_handshake_state)
    /\ accepted = <<"Hello_Retry_Request">> \o StraightHandshake

\* C2: tls_session_activated is invoked at most once, and only after, in
\* this order, the certificate chain callback returned, the CertificateVerify
\* signature verified, the server Finished MAC verified, the client Finished
\* was emitted, and the cipher state was advanced with the server Finished
\* and then with the client Finished. When one of the verifications fails
\* it is never invoked and the handshake is not finished.
C2_SessionActivatedOnceAfterAll ==
    LET at(what) == Occurrences(log, what)
        InOrder(order) ==
            \A k \in 1..(Len(order) - 1) :
                /\ at(order[k]) # {}
                /\ \A i \in at(order[k]), j \in at(order[k + 1]) : i < j
    IN /\ Cardinality(at("tls_session_activated")) <= 1
       /\ at("tls_session_activated") # {}
          => InOrder(<< "tls_verify_cert_chain", "Certificate_Verify_13 verify",
                        "Finished_13 verify", "send Finished",
                        "advance_with_server_finished", "advance_with_client_finished",
                        "tls_session_activated" >>)
       /\ alert \in {"bad_certificate", "decrypt_error"}
          => /\ at("tls_session_activated") = {}
             /\ ~handshake_finished(m_handshake_state)
       /\ handshake_finished(m_handshake_state) => at("tls_session_activated") # {}

\* C2 happens: the session was activated.
C2_Witness ==
    /\ Occurrences(log, "tls_session_activated") # {}
    /\ handshake_finished(m_handshake_state)
    /\ m_cipher_state.epoch = "application_traffic"

\* C3: after a HelloRetryRequest the expected-next set is exactly
\* {ServerHello}; a second HelloRetryRequest fails with unexpected_message
\* and the ClientHello is not sent again: at most two ClientHello are sent.
C3_AtMostOneHelloRetryRequest ==
    /\ (c_call.op = "process_handshake_msg" /\ c_call.msg.kind = "Hello_Retry_Request"
        /\ alert = "none")
       => m_transitions = {SERVER_HELLO}
    /\ Times(m_transcript_hash, "Hello_Retry_Request") >= 2
       => alert = "unexpected_message"
    /\ Times(accepted, "Hello_Retry_Request") <= 1
    /\ Cardinality(Occurrences(log, "send Client_Hello")) <= 2
    /\ Cardinality(Occurrences(log, "send Client_Hello"))
          = 1 + Times(accepted, "Hello_Retry_Request")

\* C3 happens: a second HelloRetryRequest arrived after the first was
\* answered, and was rejected.
C3_Witness ==
    /\ Times(m_transcript_hash, "Hello_Retry_Request") = 2
    /\ accepted = <<"Hello_Retry_Request">>
    /\ alert = "unexpected_message"
    /\ Cardinality(Occurrences(log, "send Client_Hello")) = 2


\* process_handshake_msg is called with a message of one of the kinds given,
\* and the message is expected.
Expected(kinds) ==
    /\ c_call'.op = "process_handshake_msg"
    /\ c_call'.msg.kind \in kinds
    /\ type(c_call'.msg) \in m_transitions

\* The call fails with the alert given; no cipher state is installed,
\* nothing is emitted and the expected-next set stays.
FailsWith(a) ==
    /\ alert' = a
    /\ m_cipher_state' = m_cipher_state
    /\ log' = log
    /\ m_transitions' = m_transitions

\* C11: an expected ServerHello(1.3) or HelloRetryRequest (without a
\* downgrade sentinel) whose session id echo differs from the ClientHello's
\* fails with illegal_parameter; so does one with a cipher suite or a
\* selected version the ClientHello did not offer; one with an extension
\* other than cookie that the ClientHello did not offer fails with
\* unsupported_extension (the first of these checks that fails decides). No
\* cipher state is installed, nothing is emitted, the expected-next set stays.
C11_ServerHelloValidated ==
    [][ Expected({"Server_Hello_13", "Hello_Retry_Request"})
        /\ c_call'.msg.downgrade = "none"
        => LET sh == c_call'.msg
               ch == m_handshake_state.client_hello
               echo == sh.session_id # "sid_client"
               suite == sh.ciphersuite \notin
                           {"TLS_AES_128_GCM_SHA256", "TLS_AES_256_GCM_SHA384"}
               version == sh.selected_version \notin ch.supported_versions
               extension == sh.extension_types \ {"cookie"} \notin SUBSET ch.extension_types
           IN /\ echo \/ suite \/ version => FailsWith("illegal_parameter")
              /\ ~(echo \/ suite \/ version) /\ extension
                    => FailsWith("unsupported_extension")
              /\ echo \/ suite \/ version \/ extension
                    => m_cipher_state' = NoCipherState ]_vars

\* A ServerHello that answers the retried ClientHello echoes another session
\* id and is refused.
C11_Witness ==
    /\ c_call.op = "process_handshake_msg"
    /\ c_call.msg.kind = "Server_Hello_13" /\ c_call.msg.session_id = "sid_other"
    /\ accepted = <<"Hello_Retry_Request">>
    /\ alert = "illegal_parameter"
    /\ m_cipher_state = NoCipherState


\* C12: an expected ServerHello(1.3) whose random ends in the TLS 1.2 or the
\* TLS 1.1 downgrade sentinel ends the handshake with illegal_parameter, and
\* no cipher state is installed.
C12_DowngradeSentinelRefused ==
    [][ Expected({"Server_Hello_13"}) /\ c_call'.msg.downgrade \in {"TLS_V12", "TLS_V11"}
        => alert' = "illegal_parameter" /\ m_cipher_state' = NoCipherState ]_vars

\* C13: once the handshake is finished a KeyUpdate rotates the read keys
\* once. If it asks for an update the client sends one KeyUpdate with
\* update_not_requested under the write keys in force, and then rotates the
\* write keys once; if not, it sends nothing and the write keys stay. The
\* client sends no KeyUpdate of another kind.
C13_KeyUpdateReciprocated ==
    /\ [][ c_call'.op = "process_post_handshake_msg" /\ c_call'.msg.kind = "Key_Update"
           /\ handshake_finished(m_handshake_state)
           => LET sent == SubSeq(log', Len(log) + 1, Len(log'))
                  at(what) == Occurrences(sent, what)
              IN /\ alert' = "none"
                 /\ SubSeq(log', 1, Len(log)) = log
                 /\ m_cipher_state'.read_key = m_cipher_state.read_key + 1
                 /\ m_cipher_state'.epoch = m_cipher_state.epoch
                 /\ Cardinality(at("update_read_keys")) = 1
                 /\ IF c_call'.msg.request_update
                    THEN /\ m_cipher_state'.write_key = m_cipher_state.write_key + 1
                         /\ Cardinality(at("send Key_Update(update_not_requested)")) = 1
                         /\ Cardinality(at("update_write_keys")) = 1
                         /\ \A i \in at("send Key_Update(update_not_requested)") :
                               /\ sent[i].cs.write_key = m_cipher_state.write_key
                               /\ \A j \in at("update_write_keys") : i < j
                    ELSE /\ m_cipher_state'.write_key = m_cipher_state.write_key
                         /\ sent = << Ev("update_read_keys", <<>>, m_cipher_state') >> ]_vars
    /\ [](\A i \in DOMAIN log : log[i].ev # "send Key_Update(update_requested)")

\* The peer asked for an update twice and was answered twice.
C13_Witness ==
    /\ c_call.op = "process_post_handshake_msg"
    /\ c_call.msg.kind = "Key_Update" /\ c_call.msg.request_update
    /\ m_cipher_state.write_key = 2 /\ m_cipher_state.read_key = 2
    /\ Cardinality(Occurrences(log, "send Key_Update(update_not_requested)")) = 2

\* C14: a dummy change_cipher_spec is accepted exactly when the ClientHello
\* has been sent and the server Finished has not been received, and then
\* changes nothing and emits nothing; otherwise it fails with
\* unexpected_message.
C14_DummyChangeCipherSpecWindow ==
    [][ c_call'.op = "process_dummy_change_cipher_spec"
        => IF has_client_hello(m_handshake_state)
              /\ "Finished_13" \notin { m_transcript_hash[i] : i \in DOMAIN m_transcript_hash }
           THEN /\ alert' = "none"
                /\ UNCHANGED <<m_transcript_hash, m_transitions, m_cipher_state,
                               m_handshake_state, log, accepted>>
           ELSE FailsWith("unexpected_message") ]_vars

\* A dummy change_cipher_spec arrives after the handshake and is refused.
C14_Witness ==
    /\ c_call.op = "process_dummy_change_cipher_spec"
    /\ alert = "unexpected_message"
    /\ handshake_finished(m_handshake_state)
    /\ Occurrences(log, "tls_session_activated") # {}


\* The handshake has gone through an accepted HelloRetryRequest.
Retried == \E i \in DOMAIN accepted : accepted[i] = "Hello_Retry_Request"

\* C16: in middlebox-compatibility mode the client emits at most one dummy
\* change_cipher_spec: with a HelloRetryRequest immediately before the second
\* ClientHello and none before its Finished, without one immediately before
\* its Finished. With the mode disabled it never emits one.
C16_SingleDummyChangeCipherSpec ==
    LET ccs == Occurrences(log, "send_dummy_change_cipher_spec")
    IN IF ~tls_13_middlebox_compatibility_mode(policy) THEN ccs = {}
       ELSE /\ Cardinality(ccs) <= 1
            /\ \A i \in Occurrences(log, "send Client_Hello") : i > 1 => i - 1 \in ccs
            /\ \A i \in Occurrences(log, "send Finished") :
                  IF Retried THEN i - 1 \notin ccs ELSE i - 1 \in ccs
            /\ \A i \in ccs :
                  /\ i < Len(log)
                  /\ log[i + 1].ev = IF Retried THEN "send Client_Hello" ELSE "send Finished"


\* The client has accepted a ServerHello in its TLS 1.2 view.
Downgraded == \E i \in DOMAIN accepted : accepted[i] = "Server_Hello_12"

\* C17: an expected ServerHello without supported_versions fails with
\* unexpected_message after a HelloRetryRequest, with illegal_parameter if
\* its random carries a downgrade sentinel or its version was not offered;
\* otherwise the expected-next set becomes empty and no cipher state is
\* installed. From then on the session is never activated by this client
\* and every handshake message fails with unexpected_message.
C17_ServerHello12 ==
    /\ [][ Expected({"Server_Hello_12"}) =>
             IF has_hello_retry_request(m_handshake_state)
             THEN FailsWith("unexpected_message")
             ELSE IF c_call'.msg.downgrade # "none"
             THEN FailsWith("illegal_parameter")
             ELSE IF c_call'.msg.selected_version
                        \notin m_handshake_state.client_hello.supported_versions
             THEN FailsWith("illegal_parameter")
             ELSE /\ alert' = "none"
                  /\ m_transitions' = {}
                  /\ m_cipher_state' = NoCipherState
                  /\ log' = log ]_vars
    /\ [](Downgraded => /\ m_transitions = {}
                        /\ m_cipher_state = NoCipherState
                        /\ Occurrences(log, "tls_session_activated") = {})
    /\ [][ Downgraded /\ c_call'.op = "process_handshake_msg"
              => FailsWith("unexpected_message") ]_vars

\* The ServerHello was accepted and the next handshake message was refused.
C17_Witness ==
    /\ Downgraded
    /\ c_call.op = "process_handshake_msg"
    /\ c_call.msg.kind # "Server_Hello_12"
    /\ alert = "unexpected_message"


\* The epochs of the cipher state in their order.
Epochs ==
    << "none", "handshake_traffic", "application_traffic_partial", "application_traffic" >>
Rank(epoch) == CHOOSE i \in DOMAIN Epochs : Epochs[i] = epoch

\* The epochs the cipher state goes through in one step: the one before it,
\* then the one in force at each event the step adds to the log, then the
\* one after it.
EpochsOfStep ==
    << m_cipher_state.epoch >>
    \o [ i \in 1..(Len(log') - Len(log)) |-> log'[Len(log) + i].cs.epoch ]
    \o << m_cipher_state'.epoch >>

\* C18: the cipher state moves through its epochs forward only and one at a
\* time: none, handshake traffic (at the ServerHello), application traffic
\* partial, application traffic. Both advances happen while the server's
\* Finished is handled, after the client's Finished was sent under the
\* handshake keys: first the server side with the transcript up to the
\* server's Finished, then the client side with the transcript including the
\* client's Finished.
C18_EpochsForwardOnly ==
    /\ [][ \A i \in 1..(Len(EpochsOfStep) - 1) :
              \/ Rank(EpochsOfStep[i + 1]) = Rank(EpochsOfStep[i])
              \/ Rank(EpochsOfStep[i + 1]) = Rank(EpochsOfStep[i]) + 1 ]_vars
    /\ [][ m_cipher_state'.epoch # m_cipher_state.epoch =>
              \/ /\ Expected({"Server_Hello_13"})
                 /\ m_cipher_state.epoch = "none"
                 /\ m_cipher_state'.epoch = "handshake_traffic"
              \/ /\ Expected({"Finished_13"})
                 /\ m_cipher_state.epoch = "handshake_traffic"
                 /\ m_cipher_state'.epoch = "application_traffic"
                 /\ \E i, j, k \in (Len(log) + 1)..Len(log') :
                       /\ i < j /\ j < k
                       /\ log'[i].ev = "send Finished"
                       /\ log'[i].cs.epoch = "handshake_traffic"
                       /\ log'[j].ev = "advance_with_server_finished"
                       /\ log'[j].th = Append(m_transcript_hash, "Finished_13")
                       /\ log'[j].cs.epoch = "application_traffic_partial"
                       /\ log'[k].ev = "advance_with_client_finished"
                       /\ log'[k].th = Append(log'[j].th, "Client_Finished")
                       /\ log'[k].cs.epoch = "application_traffic" ]_vars
    /\ [](\A i \in DOMAIN log :
             /\ log[i].ev = "advance_with_server_finished"
                   => log[i].cs.epoch = "application_traffic_partial"
             /\ log[i].ev = "advance_with_client_finished"
                   => log[i].cs.epoch = "application_traffic"
             /\ log[i].ev = "send Finished" => log[i].cs.epoch = "handshake_traffic")

\* The server's Finished was handled and the application traffic keys are in
\* force.
C18_Witness ==
    /\ c_call.op = "process_handshake_msg"
    /\ c_call.msg.kind = "Finished_13"
    /\ m_cipher_state.epoch = "application_traffic"
    /\ Occurrences(log, "advance_with_client_finished") # {}


\* C19: key updates are rate-limited: the client reciprocates fewer
\* KeyUpdate{update_requested} in a row than the peer may send (here: fewer
\* than MaxKeyUpdates, the most the peer sends), and a request beyond the
\* limit does not fail the connection.
C19_KeyUpdateRateLimited ==
    /\ Cardinality(Occurrences(log, "send Key_Update(update_not_requested)")) < MaxKeyUpdates
    /\ m_cipher_state.write_key < MaxKeyUpdates
    /\ c_call.op = "process_post_handshake_msg" /\ handshake_finished(m_handshake_state)
          => alert = "none"


\* The ServerHello now handled differs from the HelloRetryRequest received
\* before it in the cipher suite or in the selected version.
DiffersFromRetry ==
    /\ has_hello_retry_request(m_handshake_state)
    /\ \/ c_call'.msg.ciphersuite # m_handshake_state.hello_retry_request.ciphersuite
       \/ c_call'.msg.selected_version
             # m_handshake_state.hello_retry_request.selected_version

\* The ServerHello now handled passes the checks that come before the
\* comparison with the HelloRetryRequest: no downgrade sentinel, and
\* validate_server_hello_ish.
PassesValidation ==
    /\ c_call'.msg.downgrade = "none"
    /\ validate_server_hello_ish(m_handshake_state.client_hello, c_call'.msg) = "none"

\* C20: a ServerHello(1.3) after a HelloRetryRequest is accepted only if its
\* cipher suite and selected version are those of the HelloRetryRequest; one
\* that differs fails and installs no cipher state, with illegal_parameter
\* if it is valid otherwise. A valid ServerHello(1.3) without key_share
\* fails as not implemented and installs no cipher state.
C20_ServerHelloAfterRetry ==
    /\ [][ Expected({"Server_Hello_13"}) /\ DiffersFromRetry =>
              /\ alert' # "none"
              /\ m_cipher_state' = NoCipherState
              /\ m_transitions' = m_transitions
              /\ log' = log
              /\ PassesValidation => alert' = "illegal_parameter" ]_vars
    /\ [][ /\ Expected({"Server_Hello_13"})
           /\ PassesValidation
           /\ ~DiffersFromRetry
           /\ "key_share" \notin c_call'.msg.extension_types
           => /\ alert' = "Not_Implemented"
              /\ m_cipher_state' = NoCipherState
              /\ log' = log ]_vars
    /\ [][ /\ Expected({"Server_Hello_13"})
           /\ has_hello_retry_request(m_handshake_state)
           /\ PassesValidation
           /\ ~DiffersFromRetry
           /\ "key_share" \in c_call'.msg.extension_types
           => /\ alert' = "none"
              /\ m_cipher_state'.epoch = "handshake_traffic" ]_vars

\* A ServerHello that is valid but names another cipher suite than the
\* HelloRetryRequest accepted before it was refused.
C20_Witness ==
    /\ Retried
    /\ c_call.op = "process_handshake_msg"
    /\ c_call.msg.kind = "Server_Hello_13"
    /\ c_call.msg.downgrade = "none"
    /\ validate_server_hello_ish(m_handshake_state.client_hello, c_call.msg) = "none"
    /\ c_call.msg.ciphersuite # m_handshake_state.hello_retry_request.ciphersuite
    /\ alert = "illegal_parameter"
    /\ m_cipher_state = NoCipherState


\* C21: before the handshake has completed process_post_handshake_msg fails
\* its state check, rotates no key and emits nothing. After completion every
\* handshake message fails with unexpected_message, and a NewSessionTicket
\* changes no state and produces no output.
C21_PostHandshakeOnlyAfterCompletion ==
    /\ [][ /\ c_call'.op = "process_post_handshake_msg"
           /\ ~handshake_finished(m_handshake_state)
           => /\ alert' = "Invalid_State"
              /\ m_cipher_state' = m_cipher_state
              /\ log' = log
              /\ m_transitions' = m_transitions ]_vars
    /\ [][ /\ c_call'.op = "process_handshake_msg"
           /\ handshake_finished(m_handshake_state)
           => FailsWith("unexpected_message") ]_vars
    /\ [][ /\ c_call'.op = "process_post_handshake_msg"
           /\ handshake_finished(m_handshake_state)
           /\ c_call'.msg.kind = "New_Session_Ticket_13"
           => UNCHANGED <<m_transitions, m_handshake_state, m_transcript_hash,
                          m_cipher_state, log, alert, accepted>> ]_vars

\* A KeyUpdate that came before the handshake had completed was refused.
C21_Witness ==
    /\ c_call.op = "process_post_handshake_msg"
    /\ c_call.msg.kind = "Key_Update"
    /\ ~handshake_finished(m_handshake_state)
    /\ alert = "Invalid_State"
    /\ m_cipher_state.read_key = 0


\* C22: after EncryptedExtensions a CertificateRequest is accepted, and after
\* it exactly {Certificate} is expected. For that, whenever the client
\* expects a CertificateRequest there is a handshake message of this type it
\* has a handler for, and once it was accepted only a Certificate is expected.
C22_CertificateRequestAccepted ==
    /\ CERTIFICATE_REQUEST \in m_transitions
          => \E message \in Handshake_Message_13 : type(message) = CERTIFICATE_REQUEST
    /\ (accepted # << >> /\ accepted[Len(accepted)] = "Certificate_Request")
          => m_transitions = {CERTIFICATE}


----------------------------------------------------------------------------
\* The callers of the record layer: what they hand in.

\* A plaintext of n bytes.
Pattern(n) == [i \in 1..n |-> (7 * i + 3) % 256]

SmallData == { <<>>, <<1>>, <<2, 20>> }
BigData == { Pattern(MAX_PLAINTEXT_SIZE), Pattern(MAX_PLAINTEXT_SIZE + 1) }

\* A record layer nothing has been done to.
Pristine(side) ==
    /\ m_initial_record[side]
    /\ m_read_buffer[side] = <<>>
    /\ emitted[side] = <<>>
    /\ cs_write_seq[side] = 0
    /\ cs_read_seq[side] = 0

\* The next call on the record layer is the first to send: it follows the
\* construction or the receipt of the peer's first record.
FirstToSend(side) ==
    /\ emitted[side] = <<>>
    /\ cs_write_seq[side] = 0
    /\ \/ call.op = "Record_Layer"
       \/ call.op = "next_record" /\ call.side = side /\ result.kind = "Record"

\* One record layer is exercised on its own: its peer stays as constructed,
\* nothing travels between them and the handshake driver does not move.
Alone(side) ==
    /\ Pristine(Peer(side))
    /\ UNCHANGED <<wire, round_trip>>
    /\ UNCHANGED client_vars

\* An unprotected record as it arrives: header and fragment.
plain_record(record_type, legacy_version, fragment) ==
    << record_type, get_byte_0(legacy_version), get_byte_1(legacy_version),
       get_byte_0(Len(fragment)), get_byte_1(Len(fragment)) >> \o fragment

\* A protected record as the writer's cipher state produces it for the
\* inner plaintext given (content and content type byte, or nothing at all).
protected_record(writer, seq_no, inner) ==
    LET header == TLSPlaintext_Header_make(APPLICATION_DATA,
                                           encrypt_output_length(Len(inner)), FALSE)
    IN header \o encrypt_record_fragment(traffic_key(writer), seq_no, header, inner)

\* Records a peer may send to `side`, well-formed or not, whole.
InboundRecords(side) ==
    LET seq_no == cs_read_seq[side]
        peer == Peer(side)
    IN { plain_record(HANDSHAKE, 771, <<1, 2>>),
         plain_record(HANDSHAKE, 769, <<1, 2>>),
         plain_record(ALERT, 771, <<2, 40>>),
         plain_record(CHANGE_CIPHER_SPEC, 771, <<1>>),
         plain_record(CHANGE_CIPHER_SPEC, 771, <<2>>),
         plain_record(APPLICATION_DATA, 771, <<>>),
         plain_record(APPLICATION_DATA, 771, <<9, 9, 9>>),
         plain_record(APPLICATION_DATA, 771, [i \in 1..(AEAD_TAG_SIZE + 2) |-> 0]),
         protected_record(peer, seq_no, <<>>),
         protected_record(peer, seq_no, <<5, 6, HANDSHAKE>>),
         protected_record(peer, seq_no, <<APPLICATION_DATA>>),
         protected_record(peer, seq_no, <<7, ALERT>>),
         protected_record(peer, seq_no, <<1, CHANGE_CIPHER_SPEC>>),
         protected_record(peer, seq_no, <<5, 24>>),
         protected_record(peer, seq_no, <<5, 0>>) }

\* The same, and some of them cut in two.
InboundChunks(side) ==
    InboundRecords(side)
    \cup { SubSeq(r, 1, k) :
             r \in { plain_record(HANDSHAKE, 771, <<1, 2>>),
                     protected_record(Peer(side), cs_read_seq[side], <<5, 6, HANDSHAKE>>) },
             k \in {2, 6} }
    \cup { <<2>> }

\* Every header worth looking at, alone.
InboundHeaders ==
    { << t, get_byte_0(v), get_byte_1(v), get_byte_0(n), get_byte_1(n) >> :
        t \in Record_Type \cup {0, 24, 255},
        v \in {771, 769, 772, 768},
        n \in {0, 1, MAX_PLAINTEXT_SIZE, MAX_PLAINTEXT_SIZE + 1,
               MAX_CIPHERTEXT_SIZE_TLS13, MAX_CIPHERTEXT_SIZE_TLS13 + 1, 65535} }

----------------------------------------------------------------------------
\* The outbound direction: prepare_records and prepare_dummy_ccs_record with
\* every type, with and without a cipher state; the first record of the peer
\* can be received before. A plaintext beyond one fragment is the first
\* thing sent.
Outbound_prepare_records ==
    \E side \in Connection_Side, record_type \in Record_Type, protect \in BOOLEAN :
    \E data \in IF FirstToSend(side) THEN SmallData \cup BigData ELSE SmallData :
        /\ Len(emitted[side]) < MaxEmitted
        /\ Alone(side)
        /\ prepare_records(side, record_type, data, protect)

Outbound_prepare_dummy_ccs_record ==
    \E side \in Connection_Side :
        /\ Len(emitted[side]) < MaxEmitted
        /\ Alone(side)
        /\ prepare_dummy_ccs_record(side)

Outbound_copy_data ==
    \E side \in Connection_Side :
    \E data \in { plain_record(HANDSHAKE, 771, <<1, 2>>),
                  plain_record(HANDSHAKE, 769, <<1, 2>>) } :
        /\ m_initial_record[side]
        /\ m_read_buffer[side] = <<>>
        /\ Alone(side)
        /\ copy_data(side, data)

Outbound_next_record ==
    \E side \in Connection_Side, protect \in BOOLEAN :
        /\ m_initial_record[side]
        /\ Alone(side)
        /\ next_record(side, protect)

NextOutbound ==
    \/ Outbound_prepare_records
    \/ Outbound_prepare_dummy_ccs_record
    \/ Outbound_copy_data
    \/ Outbound_next_record

\* The record layers as constructed, next to a handshake driver that does
\* not move.
InitRecordLayers ==
    /\ Init
    /\ policy = [compat |-> TRUE, allow_tls12 |-> TRUE]

SpecOutbound == InitRecordLayers /\ [][NextOutbound]_vars

\* The inbound direction: bytes of any kind are fed and next_record is
\* called with and without a cipher state; a client sends its first record.
Inbound_copy_data ==
    \E side \in Connection_Side :
    \E data \in InboundChunks(side) :
        /\ Len(m_read_buffer[side]) < MaxBuffered
        /\ Alone(side)
        /\ copy_data(side, data)

Inbound_next_record ==
    \E side \in Connection_Side, protect \in BOOLEAN :
        /\ cs_read_seq[side] < MaxReadSeq
        /\ Alone(side)
        /\ next_record(side, protect)

Inbound_prepare_records ==
    \E side \in Connection_Side :
        /\ m_initial_record[side]
        /\ Alone(side)
        /\ prepare_records(side, HANDSHAKE, <<1>>, FALSE)

NextInbound ==
    \/ Inbound_copy_data
    \/ Inbound_next_record
    \/ Inbound_prepare_records

SpecInbound == InitRecordLayers /\ [][NextInbound]_vars

\* Header validation: one header is fed to an empty buffer.
Header_copy_data ==
    \E side \in Connection_Side :
    \E data \in InboundHeaders :
        /\ m_read_buffer[side] = <<>>
        /\ Alone(side)
        /\ copy_data(side, data)

NextHeader ==
    \/ Header_copy_data
    \/ Inbound_next_record
    \/ Inbound_prepare_records

SpecHeader == InitRecordLayers /\ [][NextHeader]_vars


\* A round trip: one record layer prepares records with its cipher state,
\* the bytes travel to its peer, are fed there whole or in two pieces, and the
\* peer, its cipher state in step, takes records out of them. The next round
\* trip starts when nothing is left of the one before. A plaintext beyond one
\* fragment is the first thing sent.
RoundTripData ==
    IF call.op = "Record_Layer" THEN SmallData \cup { Pattern(MAX_PLAINTEXT_SIZE + 1) }
    ELSE SmallData

RoundTrip_prepare_records ==
    \E from \in Connection_Side, record_type \in Record_Type :
    \E data \in RoundTripData :
        /\ cs_write_seq[CLIENT] + cs_write_seq[SERVER] < MaxRoundTrips
        /\ \A side \in Connection_Side : wire[side] = <<>> /\ m_read_buffer[side] = <<>>
        /\ prepare_records(from, record_type, data, TRUE)
        /\ IF result'.kind = "Output"
           THEN /\ wire' = [wire EXCEPT ![Peer(from)] = result'.output]
                /\ round_trip' = [active |-> TRUE, from |-> from, type |-> record_type,
                                  data |-> data, protect |-> TRUE, records |-> <<>>]
           ELSE UNCHANGED <<wire, round_trip>>
        /\ UNCHANGED client_vars

RoundTrip_copy_data ==
    \E to \in Connection_Side :
    \E n \in IF m_read_buffer[to] = <<>>
             THEN { Len(wire[to]), Min(Len(wire[to]), TLS_HEADER_SIZE + 1) }
             ELSE { Len(wire[to]) } :
        /\ wire[to] # <<>>
        /\ copy_data(to, SubSeq(wire[to], 1, n))
        /\ wire' = [wire EXCEPT ![to] = SubSeq(@, n + 1, Len(@))]
        /\ UNCHANGED round_trip
        /\ UNCHANGED client_vars

RoundTrip_next_record ==
    /\ round_trip.active
    /\ next_record(Peer(round_trip.from), TRUE)
    /\ round_trip' = IF result'.kind = "Record"
                     THEN [round_trip EXCEPT !.records = Append(@, result')]
                     ELSE round_trip
    /\ UNCHANGED wire
    /\ UNCHANGED client_vars

NextRoundTrip ==
    \/ RoundTrip_prepare_records
    \/ RoundTrip_copy_data
    \/ RoundTrip_next_record

SpecRoundTrip == InitRecordLayers /\ [][NextRoundTrip]_vars

\* A stream: the peer sends valid records one after the other, the bytes are
\* fed in pieces of any length up to MaxChunk, or of the length the last
\* NeedMore asked for, and next_record is called at any time. round_trip
\* holds the records of the stream (type, content, protected or not) and the
\* Records returned so far; wire holds the bytes not fed yet.
StreamRecord(record_type, content, protected) ==
    [type |-> record_type, fragment |-> content, protected |-> protected]

Streams ==
    { << StreamRecord(HANDSHAKE, <<1, 2>>, FALSE),
         StreamRecord(CHANGE_CIPHER_SPEC, <<1>>, FALSE),
         StreamRecord(ALERT, <<2, 40>>, FALSE) >>,
      << StreamRecord(HANDSHAKE, <<1, 2>>, FALSE),
         StreamRecord(CHANGE_CIPHER_SPEC, <<1>>, FALSE),
         StreamRecord(HANDSHAKE, <<5, 6>>, TRUE),
         StreamRecord(APPLICATION_DATA, <<>>, TRUE),
         StreamRecord(APPLICATION_DATA, <<9, 8, 7>>, TRUE) >> }

\* The bytes of a stream as the writer's record layer and cipher state
\* produce them.
RECURSIVE StreamBytes(_, _, _)
StreamBytes(records, writer, seq_no) ==
    IF records = <<>> THEN <<>>
    ELSE LET r == Head(records)
         IN IF r.protected
            THEN protected_record(writer, seq_no, Append(r.fragment, r.type))
                 \o StreamBytes(Tail(records), writer, seq_no + 1)
            ELSE plain_record(r.type, 771, r.fragment)
                 \o StreamBytes(Tail(records), writer, seq_no)

Stream_prepare_records ==
    /\ ~round_trip.active
    /\ m_initial_record[CLIENT]
    /\ prepare_records(CLIENT, HANDSHAKE, <<1>>, FALSE)
    /\ UNCHANGED <<wire, round_trip>>
    /\ UNCHANGED client_vars

Stream_send ==
    \E to \in Connection_Side, records \in Streams :
        /\ ~round_trip.active
        /\ to = CLIENT => ~m_initial_record[CLIENT]
        /\ wire' = [wire EXCEPT ![to] = StreamBytes(records, Peer(to), cs_read_seq[to])]
        /\ round_trip' = [active |-> TRUE, from |-> Peer(to), type |-> 0,
                          data |-> records,
                          protect |-> \E i \in DOMAIN records : records[i].protected,
                          records |-> <<>>]
        /\ UNCHANGED <<m_initial_record, m_read_buffer, cs_write_seq, cs_read_seq,
                       emitted, call, result>>
        /\ UNCHANGED client_vars

Stream_copy_data ==
    LET to == Peer(round_trip.from)
    IN \E n \in (1..MaxChunk) \cup (IF result.kind = "NeedMore" THEN {result.n} ELSE {}) :
        /\ round_trip.active
        /\ n <= Len(wire[to])
        /\ copy_data(to, SubSeq(wire[to], 1, n))
        /\ wire' = [wire EXCEPT ![to] = SubSeq(@, n + 1, Len(@))]
        /\ UNCHANGED round_trip
        /\ UNCHANGED client_vars

Stream_next_record ==
    \E protect \in IF round_trip.protect THEN {TRUE} ELSE BOOLEAN :
        /\ round_trip.active
        /\ next_record(Peer(round_trip.from), protect)
        /\ round_trip' = IF result'.kind = "Record"
                         THEN [round_trip EXCEPT !.records = Append(@, result')]
                         ELSE round_trip
        /\ UNCHANGED wire
        /\ UNCHANGED client_vars

NextStream ==
    \/ Stream_prepare_records
    \/ Stream_send
    \/ Stream_copy_data
    \/ Stream_next_record

SpecStream == InitRecordLayers /\ [][NextStream]_vars

----------------------------------------------------------------------------
\* Claims about the outbound direction

\* C4: of the records a client-side record layer emits, exactly the first
\* one, and only that one when a call fragments, carries legacy version
\* 0x0301 and every later one 0x0303; initial_record, once false, stays
\* false; prepare_dummy_ccs_record is refused while initial_record is true,
\* so that the 0x0301 record is never a dummy CCS.
C4_FirstClientRecordAlone0301 ==
    /\ \A i \in 1..Len(emitted[CLIENT]) :
          /\ emitted[CLIENT][i].legacy_version = IF i = 1 THEN 769 ELSE 771
          /\ emitted[CLIENT][i].via = "prepare_dummy_ccs_record"
                => emitted[CLIENT][i].legacy_version # 769
    /\ call.side = CLIENT /\ call.op # "Record_Layer" /\ ~call.initial_record
          => ~m_initial_record[CLIENT]
    /\ call.side = CLIENT /\ call.op = "prepare_dummy_ccs_record" /\ call.initial_record
          => /\ result.kind = "Internal_Error"
             /\ Len(emitted[CLIENT]) = call.emitted

\* C5: every emitted record of outer type application_data comes from a
\* prepare_records call that was given a cipher state; prepare_records of
\* application data without a cipher state, and of an empty plaintext with
\* any other type, is refused, emits nothing and leaves initial_record alone.
C5_ApplicationDataOnlyProtected ==
    /\ \A side \in Connection_Side : \A i \in 1..Len(emitted[side]) :
          emitted[side][i].type = APPLICATION_DATA
             => emitted[side][i].protected /\ emitted[side][i].via = "prepare_records"
    /\ /\ call.op = "prepare_records"
       /\ \/ call.type = APPLICATION_DATA /\ ~call.protect
          \/ call.type # APPLICATION_DATA /\ call.data = <<>>
       => /\ result.kind = "Internal_Error"
          /\ result.output = <<>>
          /\ Len(emitted[call.side]) = call.emitted
          /\ m_initial_record[call.side] = call.initial_record

\* A client has emitted an application_data record and is then asked for
\* one without a cipher state.
C5_Witness ==
    /\ \E i \in 1..Len(emitted[CLIENT]) : emitted[CLIENT][i].type = APPLICATION_DATA
    /\ call.op = "prepare_records" /\ call.side = CLIENT
    /\ call.type = APPLICATION_DATA /\ ~call.protect /\ call.data # <<>>
    /\ result.kind = "Internal_Error"

\* The plaintext chunks of the records in the bytes given, in order: what
\* follows each header, decrypted with the writer's cipher state and without
\* its last byte if the records are protected.
RECURSIVE PlaintextChunks(_, _, _, _)
PlaintextChunks(bytes, protect, writer, seq_no) ==
    IF Len(bytes) < 5 THEN <<>>
    ELSE LET n == 256 * bytes[4] + bytes[5]
             fragment == SubSeq(bytes, 6, 5 + n)
             inner == decrypt_record_fragment(traffic_key(writer), seq_no,
                                              SubSeq(bytes, 1, 5), fragment).fragment
             chunk == IF protect THEN SubSeq(inner, 1, Len(inner) - 1) ELSE fragment
         IN << chunk >> \o PlaintextChunks(SubSeq(bytes, 6 + n, Len(bytes)), protect,
                                            writer, seq_no + 1)

RECURSIVE Concatenation(_)
Concatenation(chunks) ==
    IF chunks = <<>> THEN <<>> ELSE Head(chunks) \o Concatenation(Tail(chunks))

\* The call was a prepare_records that is permitted: the plaintext is not
\* empty, or it is application data with a cipher state; and it is none of
\* the calls refused for another reason (application data without a cipher
\* state, a change_cipher_spec other than {1}, the first record of a server).
PermittedPrepare ==
    /\ call.op = "prepare_records"
    /\ call.data # <<>> \/ (call.type = 23 /\ call.protect)
    /\ call.type = 23 => call.protect
    /\ call.type = 20 => call.data = <<1>>
    /\ ~call.initial_record \/ call.side = CLIENT

\* C15: a permitted prepare_records succeeds and returns max(1, ceil(|P| /
\* 2^14)) records whose plaintext chunks are at most 2^14 bytes each and
\* make up P; with a cipher state each record has outer type
\* application_data, the real type as the last byte of its inner plaintext
\* and a length field of encrypt_output_length(|chunk| + 1). Multiples of
\* 2^14 are no exception.
C15_Fragmentation ==
    PermittedPrepare =>
       LET records == SubSeq(emitted[call.side], call.emitted + 1, Len(emitted[call.side]))
           chunks == PlaintextChunks(result.output, call.protect, call.side, call.write_seq)
           expected == IF call.data = <<>> THEN 1
                       ELSE (Len(call.data) + 16383) \div 16384
       IN /\ result.kind = "Output"
          /\ Len(records) = expected
          /\ Len(chunks) = expected
          /\ Concatenation(chunks) = call.data
          /\ \A k \in 1..Len(records) :
                /\ Len(chunks[k]) <= 16384
                /\ records[k].plaintext_length = Len(chunks[k])
                /\ records[k].content_type = call.type
                /\ IF call.protect
                   THEN /\ records[k].type = 23
                        /\ records[k].fragment_length
                              = encrypt_output_length(Len(chunks[k]) + 1)
                   ELSE /\ records[k].type = call.type
                        /\ records[k].fragment_length = Len(chunks[k])

----------------------------------------------------------------------------
\* Claims about the inbound direction. They are stated on the last call and
\* the state it found.

\* The call was next_record on a record layer that may receive: a server, or
\* a client that has sent its first record (the client never receives an
\* initial record).
Receiving ==
    /\ call.op = "next_record"
    /\ ~call.initial_record \/ call.side = SERVER

\* The header at the front of the buffer the call found, read as the claims
\* read it.
FrontType == call.read_buffer[1]
FrontVersion == 256 * call.read_buffer[2] + call.read_buffer[3]
FrontLength == 256 * call.read_buffer[4] + call.read_buffer[5]
FrontFragment == SubSeq(call.read_buffer, 6, 5 + FrontLength)

\* A complete record of outer type application_data with a valid header was
\* at the front of the buffer.
FrontApplicationData ==
    /\ Len(call.read_buffer) >= 5
    /\ FrontType = 23
    /\ FrontVersion = 771 \/ (call.initial_record /\ FrontVersion = 769)
    /\ FrontLength <= 16384 + 256
    /\ Len(call.read_buffer) >= 5 + FrontLength

\* What the peer's cipher state makes of the fragment at the front.
FrontDecrypted ==
    decrypt_record_fragment(traffic_key(Peer(call.side)), call.read_seq,
                            SubSeq(call.read_buffer, 1, 5), FrontFragment)

UnexpectedMessage == result.kind = "TLS_Exception" /\ result.alert = "unexpected_message"

C7_PrematureApplicationData ==
    Receiving /\ ~call.protect /\ FrontApplicationData
    => UnexpectedMessage /\ result.kind # "Record"

\* A fragment that the peer's cipher state would have decrypted to a
\* handshake record arrives before there is a cipher state.
C7_Witness ==
    /\ Receiving /\ ~call.protect /\ FrontApplicationData
    /\ FrontDecrypted.ok /\ FrontDecrypted.fragment = <<5, 6, HANDSHAKE>>
    /\ UnexpectedMessage

\* C8: a next_record that returns NeedMore(n) leaves the read buffer and
\* initial_record as they were, and next_record called again with nothing
\* fed in between returns the same NeedMore(n).
C8_NeedMoreIsPure ==
    /\ [](result.kind = "NeedMore"
            => /\ call.op = "next_record"
               /\ result = NeedMore(result.n)
               /\ m_read_buffer[call.side] = call.read_buffer
               /\ m_initial_record[call.side] = call.initial_record
               /\ cs_read_seq[call.side] = call.read_seq)
    /\ [][ result.kind = "NeedMore" /\ call'.op = "next_record" /\ call'.side = call.side
             => result' = result ]_vars

\* next_record asked for the rest of a record cut after its sixth byte.
C8_Witness ==
    /\ result.kind = "NeedMore" /\ result.n = 1
    /\ call.op = "next_record"
    /\ Len(call.read_buffer) = 6
    /\ m_read_buffer[call.side] = call.read_buffer

\* Header validation as a function of type octet, legacy version, fragment
\* length and initial_record.
HeaderValidation(type_octet, legacy_version, fragment_length, initial_record) ==
    IF type_octet \notin {20, 21, 22, 23} THEN "unexpected_message"
    ELSE IF legacy_version # 771 /\ ~(initial_record /\ legacy_version = 769)
    THEN "protocol_version"
    ELSE IF fragment_length = 0 /\ type_octet # 23 THEN "decode_error"
    ELSE IF \/ type_octet = 23 /\ fragment_length > 16384 + 256
            \/ type_octet # 23 /\ fragment_length > 16384
    THEN "record_overflow"
    ELSE "accepted"

HeaderExceptions ==
    { "unexpected message received", "invalid record version", "empty record received",
      "overflowing record received" }

\* C10: as soon as five bytes are buffered next_record validates the header:
\* a type octet outside the four record types is unexpected_message; else a
\* version other than 0x0303, or 0x0301 on the initial record, is
\* protocol_version; else length 0 on a type other than application_data is
\* decode_error; else a length above 2^14+256 for application_data or above
\* 2^14 for the others is record_overflow; everything else is accepted.
C10_HeaderValidation ==
    Len(call.read_buffer) >= 5 =>
       /\ \A initial_record \in BOOLEAN :
             LET header == TLSPlaintext_Header_parse(SubSeq(call.read_buffer, 1, 5),
                                                     initial_record)
                 verdict == HeaderValidation(FrontType, FrontVersion, FrontLength,
                                             initial_record)
             IN IF verdict = "accepted"
                THEN header.ok /\ header.type = FrontType
                     /\ header.fragment_length = FrontLength
                ELSE ~header.ok /\ header.exception.kind = "TLS_Exception"
                     /\ header.exception.alert = verdict
       /\ Receiving =>
             LET verdict == HeaderValidation(FrontType, FrontVersion, FrontLength,
                                             call.initial_record)
             IN IF verdict = "accepted"
                THEN /\ result.msg \notin HeaderExceptions
                     /\ Len(call.read_buffer) < 5 + FrontLength
                           => result = NeedMore(5 + FrontLength - Len(call.read_buffer))
                ELSE /\ result.kind = "TLS_Exception"
                     /\ result.alert = verdict
                     /\ result.msg \in HeaderExceptions
                     /\ m_read_buffer[call.side] = call.read_buffer

\* A header of application_data with length 2^14+256 passed validation: the
\* call asks for the fragment.
C10_Witness ==
    /\ Receiving
    /\ call.read_buffer = <<23, 3, 3, 65, 0>>
    /\ result = NeedMore(16640)

----------------------------------------------------------------------------
\* Claims about both directions together

RECURSIVE Fragments(_)
Fragments(records) ==
    IF records = <<>> THEN <<>>
    ELSE Head(records).fragment \o Fragments(Tail(records))

\* All that prepare_records returned has been fed to the peer and taken out
\* of its buffer by next_record.
RoundTripDone ==
    /\ round_trip.active
    /\ wire[Peer(round_trip.from)] = <<>>
    /\ m_read_buffer[Peer(round_trip.from)] = <<>>

\* C9: whatever the record type, the plaintext and the cipher state, the
\* output of prepare_records fed to the peer and taken out by next_record
\* until the buffer is empty gives records that all have the original type
\* and whose fragments, in order, make up the plaintext.
C9_RoundTrip ==
    /\ round_trip.active /\ call.op = "next_record"
          => result.kind \in {"Record", "NeedMore"}
    /\ RoundTripDone
          => /\ \A i \in 1..Len(round_trip.records) :
                   round_trip.records[i].type = round_trip.type
             /\ Fragments(round_trip.records) = round_trip.data


----------------------------------------------------------------------------
\* Claims about a stream of records

\* The Records a stream is to be returned as.
RECURSIVE StreamResults(_, _)
StreamResults(records, seq_no) ==
    IF records = <<>> THEN <<>>
    ELSE LET r == Head(records)
         IN IF r.protected
            THEN << Record(r.type, r.fragment, seq_no) >>
                 \o StreamResults(Tail(records), seq_no + 1)
            ELSE << Record(r.type, r.fragment, -1) >>
                 \o StreamResults(Tail(records), seq_no)

\* C23: the Records returned are the records of the stream in order, however
\* the stream is cut into pieces and wherever next_record is called. A call
\* that returns a Record takes exactly 5 + fragment_length bytes from the
\* front of the buffer; a NeedMore(n) asks for exactly the n > 0 bytes that
\* are missing of the header or, the header buffered, of the record, and
\* changes nothing; once the record is whole the call returns it.
C23_FifoWhateverTheChunks ==
    round_trip.active =>
       LET to == Peer(round_trip.from)
           expected == StreamResults(round_trip.data, 0)
           returned == round_trip.records
           buffered == Len(call.read_buffer)
       IN /\ Len(returned) <= Len(expected)
          /\ returned = SubSeq(expected, 1, Len(returned))
          /\ (wire[to] = <<>> /\ m_read_buffer[to] = <<>> /\ call.op = "next_record")
                => returned = expected
          /\ call.op = "next_record" =>
                /\ result.kind \in {"Record", "NeedMore"}
                /\ result.kind = "Record" =>
                      /\ buffered >= 5 + FrontLength
                      /\ m_read_buffer[to]
                            = SubSeq(call.read_buffer, 5 + FrontLength + 1, buffered)
                      /\ result = expected[Len(returned)]
                /\ result.kind = "NeedMore" =>
                      /\ result.n > 0
                      /\ result.n = IF buffered < 5 THEN 5 - buffered
                                    ELSE 5 + FrontLength - buffered
                      /\ m_read_buffer[to] = call.read_buffer
                /\ (buffered >= 5 /\ buffered >= 5 + FrontLength) => result.kind = "Record"

\* The whole stream with its protected records, each longer than a piece,
\* was fed and returned.
C23_Witness ==
    /\ round_trip.active
    /\ round_trip.protect
    /\ wire[Peer(round_trip.from)] = <<>>
    /\ m_read_buffer[Peer(round_trip.from)] = <<>>
    /\ Len(round_trip.records) = Len(round_trip.data)
    /\ call.op = "next_record"
    /\ result.kind = "Record"


----------------------------------------------------------------------------
\* Claims about what a failing next_record leaves behind

\* C24: next_record takes bytes from the read buffer and clears
\* initial_record only when it returns a Record: after a call that fails
\* with an alert the read buffer and initial_record are as before the call.
C24_FailureLeavesBuffer ==
    call.op = "next_record" =>
       /\ result.kind = "TLS_Exception"
             => /\ m_read_buffer[call.side] = call.read_buffer
                /\ m_initial_record[call.side] = call.initial_record
       /\ result.kind # "Record"
             => m_initial_record[call.side] = call.initial_record
       /\ result.kind = "Record"
             => /\ ~m_initial_record[call.side]
                /\ m_read_buffer[call.side]
                      = SubSeq(call.read_buffer, 5 + FrontLength + 1, Len(call.read_buffer))


----------------------------------------------------------------------------
\* Claims about the change_cipher_spec records sent

\* C25: every record sent with content type change_cipher_spec is an
\* unprotected record of outer type 20 with the one-byte payload {1};
\* prepare_records(change_cipher_spec, {1}, cipher state) in particular
\* returns no protected record.
C25_NoProtectedChangeCipherSpec ==
    /\ \A side \in Connection_Side : \A i \in DOMAIN emitted[side] :
          emitted[side][i].content_type = CHANGE_CIPHER_SPEC
             => /\ ~emitted[side][i].protected
                /\ emitted[side][i].type = CHANGE_CIPHER_SPEC
                /\ emitted[side][i].fragment_length = 1
                /\ emitted[side][i].plaintext_length = 1
    /\ (call.op \in {"prepare_records", "prepare_dummy_ccs_record"}
        /\ call.type = CHANGE_CIPHER_SPEC /\ result.kind = "Output")
          => /\ Len(result.output) = TLS_HEADER_SIZE + 1
             /\ result.output[1] = CHANGE_CIPHER_SPEC
             /\ SubSeq(result.output, 4, 6) = <<0, 1, 1>>

====
